---------------------------- MODULE Spec2Model ----------------------------
(***************************************************************************)
(* Model of the AxisTomography driver (src/qsz007/driver.py): the          *)
(* register-mapped device, set_waveform's conversion of physical times to  *)
(* clock ticks, and the acquisition worker with its command, data and      *)
(* error queues, the stop/done events and the double-buffered DMA.         *)
(***************************************************************************)
EXTENDS Integers, Sequences, FiniteSets, TLC

VARIABLES
    regs,          \* mmio.array, by register name: 32-bit words as <<hi, lo>> halves
    trigger_num,   \* self.trigger_num (a plain attribute, not a register)
    stop_flag,     \* self.stop_flag  (threading.Event)
    done_flag,     \* self.done_flag  (threading.Event)
    par_queue,     \* self.par_queue
    data_queue,    \* self.data_queue
    error_queue,   \* self.error_queue
    wpc,           \* position of the worker thread in __run_tomography
    cycle_target,  \* worker local cycle_target
    cycle,         \* worker local cycle (last cycle counter read by get_state)
    ctcle_cnt,     \* worker local ctcle_cnt
    error,         \* worker local error
    run_id,        \* number of commands the worker has taken (names the run of a batch)
    dma,           \* the three DMA receive channels
    hw_cycles,     \* cycles the device has completed since start was asserted
    cpc,           \* position of each caller thread
    wf_arg,        \* arguments of the set_waveform call in progress / last made
    wf_last,       \* the last set_waveform call that returned: its arguments if it
                   \* returned normally, and whether it repeated the call before it
    st_arg,        \* argument of the start_tomography call in progress / last made
    pl_arg,        \* each caller's poll_data call in progress: its totaltime, its
                   \* timeout ("None" or "timed", a number of seconds), and
                   \* whether the error queue held an error when it was called
    new_data,      \* poll_data local new_data, per caller
    polled,        \* history: the batches the poll_data calls of caller "pol"
                   \* have returned so far, concatenated in the order returned
    ret,           \* what each caller's last call returned or raised
    nstarts,       \* number of commands put on par_queue
    net,           \* the netlist the BusParser has read: pins, mod2type, NUM_MI
    tr,            \* the last call of the port tracer and what it gave
    ip,            \* a SocIp object accessed by attribute name: the words of
                   \* mmio.array by offset, its plain attributes, the last access
    dp             \* __data_process on its own: the buffers' content it is
                   \* given and the slices it takes

driverVars == <<regs, trigger_num, stop_flag, done_flag, par_queue, data_queue,
                error_queue, wpc, cycle_target, cycle, ctcle_cnt, error, run_id,
                dma, hw_cycles, cpc, wf_arg, wf_last, st_arg, pl_arg, new_data,
                polled, ret, nstarts>>

traceVars == <<net, tr>>

unitVars == <<ip, dp>>

vars == <<driverVars, traceVars, unitVars>>

devVars    == <<regs, trigger_num>>
flagVars   == <<stop_flag, done_flag>>
queueVars  == <<par_queue, data_queue, error_queue>>
workerVars == <<wpc, cycle_target, cycle, ctcle_cnt, error, run_id>>
hwVars     == <<dma, hw_cycles>>
pollVars   == <<pl_arg, new_data, polled>>

-----------------------------------------------------------------------------
(* Program constants *)

TRIGGER_LIMIT == 10000
DAC_MAXV == 32766
\* a register is one np.uint32 word, kept as two 16-bit halves <<hi, lo>>
Half == 65536
\* 2**16, the fixed-point scale of the amplitude ratios
Q16 == 65536
\* 1000 * self['dac']['f_fabric'] for the 307.2 MHz fabric clock: ticks per ms
f_fabric == 307200

Channels == {"dma_time", "dma_dc", "dma_graphy"}
Callers == {"ctl", "pol"}

REGISTERS == {"start", "tri_limit", "cycle", "tx_period", "tx_tag_fall",
              "tx_ratio_rise", "tx_ratio_fall", "rx_state"}

-----------------------------------------------------------------------------
(* Python integers wider than 32 bits: a pair <<hi, lo>> stands for         *)
(* hi * Half + lo with 0 <= lo < Half; hi carries the sign.                 *)

Norm(hi, lo) == <<hi + (lo \div Half), lo % Half>>

BigOf(n) == Norm(0, n)

BigAdd(a, b) == Norm(a[1] + b[1], a[2] + b[2])

BigSub(a, b) == Norm(a[1] - b[1], a[2] - b[2])

\* a * b for 0 <= a < 2^15 and 0 <= b < 2^31
BigMul(a, b) == Norm(a * (b \div Half), a * (b % Half))

BigLeq(a, b) == a[1] < b[1] \/ (a[1] = b[1] /\ a[2] <= b[2])

BigAbs(a) == IF a[1] < 0 THEN BigSub(<<0, 0>>, a) ELSE a

FitsInt(a) == a[1] >= 0 /\ a[1] < Half \div 2

ToInt(a) == a[1] * Half + a[2]

\* np.uint32(v): the low 32 bits of v
U32(a) == <<a[1] % Half, a[2]>>

-----------------------------------------------------------------------------
(* np.round: round to nearest, ties to even (n >= 0, d > 0) *)

RoundHalfEven(n, d) ==
    LET q == n \div d
        r == n % d
    IN  IF r > d - r THEN q + 1
        ELSE IF r < d - r THEN q
        ELSE IF q % 2 = 0 THEN q ELSE q + 1

\* int(np.round(n / d)) for 0 <= n < 2^31 and a wide d > 0
RoundDiv(n, d) ==
    IF FitsInt(d) THEN RoundHalfEven(n, ToInt(d))
    ELSE IF BigLeq(BigAdd(BigOf(n), BigOf(n)), d) THEN 0 ELSE 1

-----------------------------------------------------------------------------
(* set_waveform *)

\* bounds of the arguments explored
MaxRiseMs == 14000
MaxRateHz == 100001

RiseTimes == {0, 1, 150, MaxRiseMs}
FallTimes == {49, 50}
\* max_scal as a fraction <<numerator, denominator>>
MaxScals == {<<0 - 1, 2>>, <<1, 2>>, <<1, 1>>, <<3, 2>>}
Rates == {100, 100000, MaxRateHz}

WfArgs == [rise_time_ms : RiseTimes, fall_time_ms : FallTimes,
           max_scal : MaxScals, trigger_rate_hz : Rates]

\* int(np.round(rise_time_ms * trigger_rate_hz * 0.001))
TriggerNum(a) == RoundHalfEven(a.rise_time_ms * a.trigger_rate_hz, 1000)

\* Validate without the check of the trigger count against TRIGGER_LIMIT
ValidateNoLimit(a) ==
    IF a.fall_time_ms < 50 THEN "fall_time_ms"
    ELSE IF ~(0 <= a.max_scal[1] /\ a.max_scal[1] <= a.max_scal[2]) THEN "max_scal"
    ELSE IF a.trigger_rate_hz > 100000 THEN "trigger_rate_hz"
    ELSE "ok"

\* Validate without the check of trigger_rate_hz
ValidateNoRate(a) ==
    IF TriggerNum(a) > TRIGGER_LIMIT THEN "trigger_num"
    ELSE IF a.fall_time_ms < 50 THEN "fall_time_ms"
    ELSE IF ~(0 <= a.max_scal[1] /\ a.max_scal[1] <= a.max_scal[2]) THEN "max_scal"
    ELSE "ok"

\* the checks of lines 193-200, in their order: the first one that raises
Validate(a) ==
    IF TriggerNum(a) > TRIGGER_LIMIT THEN "trigger_num"
    ELSE IF a.fall_time_ms < 50 THEN "fall_time_ms"
    ELSE IF ~(0 <= a.max_scal[1] /\ a.max_scal[1] <= a.max_scal[2]) THEN "max_scal"
    ELSE IF a.trigger_rate_hz > 100000 THEN "trigger_rate_hz"
    ELSE "ok"

\* int(np.round(ms * 1000 * self['dac']['f_fabric']))
Clk(ms) == BigMul(ms, f_fabric)

\* DAC_MAXV * max_scal * 2**16, for 0 <= max_scal <= 1
Amp(a) == ((DAC_MAXV * Q16) \div a.max_scal[2]) * a.max_scal[1]

\* WaveformWrites with tx_period computed from the tx_tag_fall register as it
\* was before the call instead of from rise_clk
WaveformWritesStale(a, r) ==
    LET rise_clk == Clk(a.rise_time_ms)
        fall_clk == Clk(a.fall_time_ms)
        r1 == [r EXCEPT !["tri_limit"] = U32(BigOf(TriggerNum(a))),
                        !["tx_tag_fall"] = U32(BigSub(rise_clk, BigOf(1))),
                        !["tx_period"] = U32(BigAdd(r["tx_tag_fall"], fall_clk))]
        r2 == [r1 EXCEPT !["tx_ratio_rise"] = U32(BigOf(RoundDiv(Amp(a), rise_clk)))]
        r3 == [r2 EXCEPT !["tx_ratio_fall"] = U32(BigOf(0 - RoundDiv(Amp(a), fall_clk)))]
    IN  IF rise_clk = <<0, 0>> THEN [raised |-> TRUE, regs |-> r1]
        ELSE IF fall_clk = <<0, 0>> THEN [raised |-> TRUE, regs |-> r2]
        ELSE [raised |-> FALSE, regs |-> r3]

\* lines 202-208: the register writes, in order, up to the first one that
\* raises (a division by a zero tick count)
WaveformWrites(a, r) ==
    LET rise_clk == Clk(a.rise_time_ms)
        fall_clk == Clk(a.fall_time_ms)
        r1 == [r EXCEPT !["tri_limit"] = U32(BigOf(TriggerNum(a))),
                        !["tx_tag_fall"] = U32(BigSub(rise_clk, BigOf(1))),
                        !["tx_period"] = U32(BigSub(BigAdd(rise_clk, fall_clk), BigOf(1)))]
        r2 == [r1 EXCEPT !["tx_ratio_rise"] = U32(BigOf(RoundDiv(Amp(a), rise_clk)))]
        r3 == [r2 EXCEPT !["tx_ratio_fall"] = U32(BigOf(0 - RoundDiv(Amp(a), fall_clk)))]
    IN  IF rise_clk = <<0, 0>> THEN [raised |-> TRUE, regs |-> r1]
        ELSE IF fall_clk = <<0, 0>> THEN [raised |-> TRUE, regs |-> r2]
        ELSE [raised |-> FALSE, regs |-> r3]

Result(op, status, data, err) ==
    [op |-> op, status |-> status, data |-> data, err |-> err]

NoResult == Result("none", "none", <<>>, <<>>)

NoPoll == [totaltime |-> 0, timeout |-> "timed", err_at_call |-> FALSE]

\* the arguments of a poll_data call as it is entered
PollArgT(totaltime, timeout) ==
    [totaltime |-> totaltime, timeout |-> timeout,
     err_at_call |-> error_queue # <<>>]

\* poll_data(totaltime) with the default timeout=0.1 of line 271, which is
\* also the timeout of the call of line 265
PollArg(totaltime) == PollArgT(totaltime, "timed")

NoArgs == [rise_time_ms |-> 0 - 1, fall_time_ms |-> 0 - 1,
           max_scal |-> <<0, 1>>, trigger_rate_hz |-> 0 - 1]

\* the caller enters set_waveform(a)
CallSetWaveform(a) ==
    /\ cpc["ctl"] = "idle"
    /\ cpc' = [cpc EXCEPT !["ctl"] = "set_waveform"]
    /\ wf_arg' = a
    /\ UNCHANGED <<traceVars, unitVars, devVars, flagVars, queueVars, workerVars, hwVars, pollVars,
                   wf_last, st_arg, ret, nstarts>>

\* the body of set_waveform, lines 192-208
set_waveform ==
    /\ cpc["ctl"] = "set_waveform"
    /\ cpc' = [cpc EXCEPT !["ctl"] = "idle"]
    /\ trigger_num' = TriggerNum(wf_arg)
    /\ LET w == IF Validate(wf_arg) # "ok"
                THEN [raised |-> TRUE, regs |-> regs]
                ELSE WaveformWrites(wf_arg, regs)
       IN  /\ regs' = w.regs
           /\ ret' = [ret EXCEPT !["ctl"] =
                        Result("set_waveform",
                               IF w.raised THEN "raised" ELSE "ok", <<>>, <<>>)]
           /\ wf_last' = [arg |-> IF w.raised THEN NoArgs ELSE wf_arg,
                          twice |-> wf_last.arg = wf_arg]
    /\ UNCHANGED <<traceVars, unitVars, flagVars, queueVars, workerVars, hwVars, pollVars,
                   wf_arg, st_arg, nstarts>>

-----------------------------------------------------------------------------
(* The netlist and the port tracer (src/qsz007/ip.py)                       *)
(*                                                                          *)
(* A name with '/' separators, such as the full name "h/x/S_AXIS" of a      *)
(* port, is the sequence of its segments <<"h", "x", "S_AXIS">>: joining    *)
(* with '/' is concatenation and x.split('/') gives the segments.           *)

\* the largest number of trace steps followed; a walk that needs more is
\* one that never ends (the netlist has a cycle)
MaxSteps == 6

\* the blocks of the netlists explored
TOMO == <<"tomo">>
BLK_X == <<"h", "x">>
BLK_Y == <<"y">>
BLK_Z == <<"z">>
BLK_ILA == <<"system_ila_0">>

\* blockname + "/" + portname
FullPort(blockname, portname) == blockname \o <<portname>>

\* the bus of each output port: a bus of its own
BusOf == [e \in {FullPort(TOMO, "M0_ADC"), FullPort(BLK_X, "M_AXIS"),
                 FullPort(BLK_X, "M00_AXIS"), FullPort(BLK_X, "M01_AXIS"),
                 FullPort(BLK_Y, "M_AXIS")} |->
            CASE e = FullPort(TOMO, "M0_ADC") -> "n_tomo"
              [] e = FullPort(BLK_X, "M_AXIS") -> "n_x"
              [] e = FullPort(BLK_X, "M00_AXIS") -> "n_x0"
              [] e = FullPort(BLK_X, "M01_AXIS") -> "n_x1"
              [] OTHER -> "n_y"]

\* the buses each input port may be wired to
InputBuses ==
    [e \in {FullPort(TOMO, "S0_ADC"), FullPort(BLK_X, "S_AXIS"),
            FullPort(BLK_Y, "S_AXIS"), FullPort(BLK_Z, "S_AXIS"),
            FullPort(BLK_ILA, "SLOT_0_AXIS")} |->
       CASE e = FullPort(TOMO, "S0_ADC") -> {"__NOC__", "n_x", "n_y"}
         [] e = FullPort(BLK_X, "S_AXIS") -> {"__NOC__", "n_tomo", "n_y", "n_x"}
         [] e = FullPort(BLK_Y, "S_AXIS") -> {"__NOC__", "n_tomo", "n_x", "n_x0"}
         [] e = FullPort(BLK_Z, "S_AXIS") -> {"__NOC__", "n_x1"}
         [] OTHER -> {"__NOC__", "n_tomo", "n_x"}]

XTypes == {"axis_register_slice", "axis_broadcaster", "axi_dma", "xlconcat"}
YTypes == {"axi_dma", "xlconcat"}
NumMis == {1, 2}

\* BusParser.__init__: pins maps each port to its bus, mod2type each block to
\* its type; num_mi is the NUM_MI parameter get_param reads for block h/x
Netlists ==
    {[pins |-> [e \in (DOMAIN BusOf) \cup (DOMAIN InputBuses) |->
                  IF e \in DOMAIN BusOf THEN BusOf[e] ELSE w[e]],
      mod2type |-> [b \in {TOMO, BLK_X, BLK_Y, BLK_Z, BLK_ILA} |->
                      CASE b = TOMO -> "axis_tomography"
                        [] b = BLK_X -> tx
                        [] b = BLK_Y -> ty
                        [] b = BLK_Z -> "axi_dma"
                        [] OTHER -> "system_ila"],
      num_mi |-> k] :
       w \in {f \in [DOMAIN InputBuses -> {"__NOC__", "n_tomo", "n_x", "n_x0",
                                            "n_x1", "n_y"}] :
                \A e \in DOMAIN InputBuses : f[e] \in InputBuses[e]},
       tx \in XTypes, ty \in YTypes, k \in NumMis}

\* the netlist of the state after construction: tomo -> h/x -> y
DefaultNet ==
    CHOOSE n \in Netlists :
      /\ n.pins[FullPort(BLK_X, "S_AXIS")] = "n_tomo"
      /\ n.pins[FullPort(BLK_Y, "S_AXIS")] = "n_x"
      /\ n.pins[FullPort(BLK_Z, "S_AXIS")] = "__NOC__"
      /\ n.pins[FullPort(TOMO, "S0_ADC")] = "__NOC__"
      /\ n.pins[FullPort(BLK_ILA, "SLOT_0_AXIS")] = "__NOC__"
      /\ n.mod2type[BLK_X] = "axis_register_slice"
      /\ n.mod2type[BLK_Y] = "axi_dma"
      /\ n.num_mi = 1

\* BusParser.__init__, lines 331-336: nets maps each bus name to the set of
\* the ports on it
Nets(n) ==
    [b \in {n.pins[e] : e \in DOMAIN n.pins} |->
       {e \in DOMAIN n.pins : n.pins[e] = b}]

\* 'system_ila_' in x: some segment of the name contains it ('system_ila_'
\* has no '/'); of the names explored, these
HasIla(x) == \E i \in 1..Len(x) : x[i] \in {"system_ila_0"}

\* _trace_net that does not discard the port it started at
trace_bus_keep_self(n, blockname, portname) ==
    LET fullport == FullPort(blockname, portname)
    IN  IF fullport \notin DOMAIN n.pins THEN [raised |-> TRUE, ends |-> {}]
        ELSE IF n.pins[fullport] = "__NOC__" THEN [raised |-> FALSE, ends |-> {}]
        ELSE [raised |-> FALSE,
              ends |-> {x \in Nets(n)[n.pins[fullport]] : ~HasIla(x)}]

\* trace_bus / _trace_net, lines 137-143: KeyError for a port the parser
\* does not know, [] for an unconnected port, otherwise the ports on the net
\* other than the starting one and the ILA ports, as a set (the list is this
\* set in the iteration order of nets[netname])
trace_bus(n, blockname, portname) ==
    LET fullport == FullPort(blockname, portname)
    IN  IF fullport \notin DOMAIN n.pins THEN [raised |-> TRUE, ends |-> {}]
        ELSE IF n.pins[fullport] = "__NOC__" THEN [raised |-> FALSE, ends |-> {}]
        ELSE [raised |-> FALSE,
              ends |-> {x \in Nets(n)[n.pins[fullport]] :
                          x # fullport /\ ~HasIla(x)}]

\* the lists that hold the elements of set S once each: the orders in which
\* a Python set may be iterated
Orders(S) ==
    {s \in [1..Cardinality(S) -> S] :
       \A i, j \in 1..Cardinality(S) : i # j => s[i] # s[j]}

\* lines 220-224 and 275-279: the block name is the segments of
\* trace_result[0] but the last joined by '/', the port is the last segment
BlockOf(e) == SubSeq(e, 1, Len(e) - 1)
PortOf(e) == e[Len(e)]

\* the goal_types passed by the drivers' configure_connections
GoalTypes == {"axi_dma"}

\* 's' + next_port[1:], for the port names explored
LowerS(port) ==
    CASE port = "M_AXIS" -> "s_AXIS"
      [] port = "M00_AXIS" -> "s00_AXIS"
      [] port = "M01_AXIS" -> "s01_AXIS"
      [] port = "S_AXIS" -> "s_AXIS"
      [] OTHER -> "s"

\* trace_back, lines 228-240: the input port to go on from at a block of a
\* pass-through type; "" for a block of any other type
BackPort(next_type, next_port) ==
    CASE next_type \in {"axis_clock_converter", "axis_dwidth_converter",
                        "axis_register_slice", "axis_broadcaster"} -> "S_AXIS"
      [] next_type = "axis_cdcsync_v1" -> LowerS(next_port)
      [] next_type = "sg_translator" -> "s_tproc_axis"
      [] next_type = "axis_resampler_2x1_v1" -> "s_axis"
      [] next_type = "axis_sg_pulse" -> "S_AXIS"
      [] OTHER -> ""

BackOut(kind, block, port, type, flags) ==
    [kind |-> kind, block |-> block, port |-> port, type |-> type,
     zero |-> flags.zero, many |-> flags.many, unknown |-> flags.unknown]

\* trace_back, lines 212-240: every result the walk from (next_block,
\* next_port) can have, trace_result[0] being any element of what trace_bus
\* returns. kind is "return" for a triple, "none" for None, "raise" for an
\* exception and "loop" for a walk that does not end; the flags record
\* whether a step found no endpoint, more than one endpoint, or a block of a
\* type that is neither a goal nor a pass-through type.
RECURSIVE trace_back_from(_, _, _, _, _)
trace_back_from(n, next_block, next_port, fuel, flags) ==
    IF fuel = 0 THEN {BackOut("loop", <<>>, "", "", flags)}
    ELSE
      LET trace_result == trace_bus(n, next_block, next_port)
      IN  IF trace_result.raised
          THEN {BackOut("raise", <<>>, "", "KeyError", flags)}
          ELSE IF trace_result.ends = {}
          THEN {BackOut("none", <<>>, "", "", [flags EXCEPT !.zero = TRUE])}
          ELSE UNION {
            LET block == BlockOf(e)
                port == PortOf(e)
                type == n.mod2type[block]
                f == [flags EXCEPT !.many = @ \/ Cardinality(trace_result.ends) > 1]
            IN  IF type \in GoalTypes
                THEN {BackOut("return", block, port, type, f)}
                ELSE IF BackPort(type, port) # ""
                THEN trace_back_from(n, block, BackPort(type, port), fuel - 1, f)
                ELSE {BackOut("raise", block, "", "RuntimeError",
                              [f EXCEPT !.unknown = TRUE])}
            : e \in trace_result.ends}

trace_back(n, start_block, start_port) ==
    trace_back_from(n, start_block, start_port, MaxSteps,
                    [zero |-> FALSE, many |-> FALSE, unknown |-> FALSE])

\* "M%02d_AXIS" % iOut
BroadcasterPort(iOut) == IF iOut = 0 THEN "M00_AXIS" ELSE "M01_AXIS"

\* trace_forward, lines 283-302: the (block, port) pairs appended to to_check
\* at a block of a fan-out type; <<>> for a block of any other type
ForwardPorts(n, block, block_type) ==
    CASE block_type = "axis_broadcaster" ->
           [i \in 1..n.num_mi |-> <<block, BroadcasterPort(i - 1)>>]
      [] block_type \in {"axis_clock_converter", "axis_register_slice",
                         "axis_data_fifo", "fifo_generator"} ->
           <<<<block, "M_AXIS">>>>
      [] block_type = "axis_register_slice_nb" -> <<<<block, "m_axis">>>>
      [] block_type \in {"smartconnect", "axi_interconnect"} ->
           <<<<block, "M00_AXI">>>>
      [] block_type \in {"axis_chirp_mux", "axis_wf_mux"} ->
           <<<<block, "M00_AXIS">>>>
      [] OTHER -> <<>>

FwdOut(kind, found, dead_ends, exc) ==
    [kind |-> kind, found |-> found, dead_ends |-> dead_ends, exc |-> exc]

\* trace_forward, lines 268-303: every outcome of the while loop,
\* trace_result[0] being any element of what trace_bus returns: "done" with
\* the found and dead_ends lists, "raise" (trace_result[0] of an empty list is
\* an IndexError), or "loop"
RECURSIVE trace_forward_loop(_, _, _, _, _)
trace_forward_loop(n, to_check, found, dead_ends, fuel) ==
    IF to_check = <<>> THEN {FwdOut("done", found, dead_ends, "")}
    ELSE IF fuel = 0 THEN {FwdOut("loop", found, dead_ends, "")}
    ELSE
      LET trace_result == trace_bus(n, to_check[1][1], to_check[1][2])
          rest == Tail(to_check)
      IN  IF trace_result.raised
          THEN {FwdOut("raise", found, dead_ends, "KeyError")}
          ELSE IF trace_result.ends = {}
          THEN {FwdOut("raise", found, dead_ends, "IndexError")}
          ELSE UNION {
            LET block == BlockOf(e)
                port == PortOf(e)
                block_type == n.mod2type[block]
            IN  IF block_type \in GoalTypes
                THEN trace_forward_loop(n, rest,
                       Append(found, <<block, port, block_type>>), dead_ends,
                       fuel - 1)
                ELSE IF ForwardPorts(n, block, block_type) # <<>>
                THEN trace_forward_loop(n,
                       rest \o ForwardPorts(n, block, block_type), found,
                       dead_ends, fuel - 1)
                ELSE trace_forward_loop(n, rest, found,
                       Append(dead_ends, block), fuel - 1)
            : e \in trace_result.ends}

\* the check of line 304 raising only when fewer blocks were found
CountMismatchFewer(found, block_number) ==
    block_number # 0 - 1 /\ Len(found) < block_number

\* line 304: (block_number != -1) and (len(found) != block_number)
CountMismatch(found, block_number) ==
    block_number # 0 - 1 /\ Len(found) # block_number

\* trace_forward: the loop, then lines 304-306
trace_forward(n, start_block, start_port, block_number) ==
    {IF o.kind = "done"
     THEN IF CountMismatch(o.found, block_number)
          THEN [kind |-> "raise", found |-> o.found, dead_ends |-> o.dead_ends,
                exc |-> "RuntimeError", completed |-> TRUE]
          ELSE [kind |-> "return", found |-> o.found, dead_ends |-> o.dead_ends,
                exc |-> "", completed |-> TRUE]
     ELSE [kind |-> o.kind, found |-> o.found, dead_ends |-> o.dead_ends,
           exc |-> o.exc, completed |-> FALSE]
     : o \in trace_forward_loop(n, <<<<start_block, start_port>>>>, <<>>, <<>>,
                                MaxSteps)}

BlockNumbers == {0 - 1, 0, 1, 2}

NoTrace == [op |-> "none"]

-----------------------------------------------------------------------------
(* Register access by attribute name (SocIp, src/qsz007/ip.py)              *)

\* AxisTomography.REGISTERS, driver.py lines 83-110: register name -> offset
REGISTER_MAP ==
    [start |-> 0, tri_limit |-> 1, cycle |-> 2, tx_period |-> 3, tx_tag_fall |-> 4,
     tx_ttl0_rise |-> 5, tx_ttl1_rise |-> 6, tx_ttl2_rise |-> 7, tx_ttl3_rise |-> 8,
     tx_ttl4_rise |-> 9, tx_ttl5_rise |-> 10, tx_ttl6_rise |-> 11,
     tx_ttl7_rise |-> 12, tx_ttl0_fall |-> 13, tx_ttl1_fall |-> 14,
     tx_ttl2_fall |-> 15, tx_ttl3_fall |-> 16, tx_ttl4_fall |-> 17,
     tx_ttl5_fall |-> 18, tx_ttl6_fall |-> 19, tx_ttl7_fall |-> 20,
     tx_ratio_rise |-> 21, tx_ratio_fall |-> 22, rx_state |-> 23,
     rx_tag_cnt |-> 24, rx_data_cnt |-> 25, rx_tri_mode |-> 26,
     rx_threshold |-> 27]

Offsets == {REGISTER_MAP[a] : a \in DOMAIN REGISTER_MAP}

\* names that are not in REGISTERS: one the driver keeps as a plain attribute
\* and one no code defines (a misspelt register name)
PlainNames == {"trigger_num", "tx_ratio_rize"}

\* the names and the values the accesses explored use
AccessNames == {"start", "cycle", "rx_threshold"} \cup PlainNames
AccessValues == {0, 1, 0 - 1}

NoAccess == [op |-> "none", name |-> "", value |-> 0, raised |-> FALSE]

\* the object after configure(): trigger_num is set (driver.py line 161),
\* tx_ratio_rize is no attribute
InitIp ==
    [array |-> [o \in Offsets |-> <<0, 0>>],
     dict |-> [a \in PlainNames |->
                 IF a = "trigger_num" THEN <<RoundHalfEven(150 * 10000, 1000)>>
                 ELSE <<>>],
     last |-> NoAccess]

\* SocIp.__setattr__(a, v), ip.py lines 31-44: a name in REGISTERS writes
\* np.uint32(v) at its offset; the KeyError of any other name is caught and
\* the value becomes a plain attribute of the object
SocIp_setattr(a, v) ==
    /\ ip' = IF a \in DOMAIN REGISTER_MAP
             THEN [ip EXCEPT !.array[REGISTER_MAP[a]] = U32(BigOf(v)),
                             !.last = [op |-> "set", name |-> a, value |-> v,
                                       raised |-> FALSE]]
             ELSE [ip EXCEPT !.dict[a] = <<v>>,
                             !.last = [op |-> "set", name |-> a, value |-> v,
                                       raised |-> FALSE]]
    /\ UNCHANGED <<driverVars, traceVars, dp>>

\* reading attribute a: a plain attribute of the object is found by the
\* normal lookup; otherwise SocIp.__getattr__(a), ip.py lines 46-59, returns
\* the word at the offset of a name in REGISTERS, and for any other name
\* object.__getattribute__ raises AttributeError
SocIp_getattr(a) ==
    /\ ip' = IF a \notin DOMAIN REGISTER_MAP /\ ip.dict[a] # <<>>
             THEN [ip EXCEPT !.last = [op |-> "get", name |-> a,
                                       value |-> ip.dict[a][1], raised |-> FALSE]]
             ELSE IF a \in DOMAIN REGISTER_MAP
             THEN [ip EXCEPT !.last = [op |-> "get", name |-> a,
                                       value |-> ip.array[REGISTER_MAP[a]],
                                       raised |-> FALSE]]
             ELSE [ip EXCEPT !.last = [op |-> "get", name |-> a, value |-> 0,
                                       raised |-> TRUE]]
    /\ UNCHANGED <<driverVars, traceVars, dp>>

\* __data_process has not been applied
NoDecode == [op |-> "none"]

-----------------------------------------------------------------------------
(* __data_process: the slices of the waveform buffer (driver.py 330-367)    *)
(*                                                                          *)
(* time_buf holds np.uint32 words; with numpy 1.21.6 (setup.py) a uint32    *)
(* scalar combined with a Python int gives an int64, so the quotients, their *)
(* difference and the indices are plain signed integers.                    *)

\* the largest number of triggers of a cycle explored
MaxTagCnt == 3

\* INTERPOLATION of the block's parameters (line 125), and the raw time tags
Interpolations == {8, 32}
TimeValues == {0, 7, 80, 8192, 2000000000}

\* line 127: self.graphy_clk = 1024 // self.INTERPOLATION
graphy_clk(INTERPOLATION) == 1024 \div INTERPOLATION

\* line 135: a waveform buffer holds TRIGGER_LIMIT * 1024 samples
GraphyBufLen == TRIGGER_LIMIT * 1024

\* an index of a Python slice of a sequence of length n, as the slice uses it
SliceBound(x, n) ==
    IF x < 0 THEN (IF x + n < 0 THEN 0 ELSE x + n)
    ELSE IF x > n THEN n ELSE x

\* len(buf[s:e]) for a buffer of length n
SliceLen(s, e, n) ==
    IF SliceBound(e, n) > SliceBound(s, n)
    THEN SliceBound(e, n) - SliceBound(s, n) ELSE 0

\* lines 344-365: the loop over range(tag_cnt); pre is now_quotient of the
\* pass before, start_clk the running offset, total_data the records so far
RECURSIVE data_process_slices(_, _, _, _, _, _)
data_process_slices(INTERPOLATION, time_buf, i, pre, start_clk, total_data) ==
    IF i > Len(time_buf) THEN total_data
    ELSE LET pre_quotient == IF i > 1 THEN pre ELSE 0
             now_quotient == time_buf[i] \div INTERPOLATION
             residue_clk == time_buf[i] % INTERPOLATION
             delta == IF i > 1 THEN now_quotient - pre_quotient ELSE 0
             delta_clk == IF delta > graphy_clk(INTERPOLATION)
                          THEN graphy_clk(INTERPOLATION) ELSE delta
             clk == start_clk + delta_clk
             start_index == clk * INTERPOLATION + residue_clk
             end_index == start_index + 1000
         IN  data_process_slices(INTERPOLATION, time_buf, i + 1, now_quotient, clk,
               Append(total_data,
                      [start_clk |-> clk, start_index |-> start_index,
                       end_index |-> end_index,
                       len |-> SliceLen(start_index, end_index, GraphyBufLen)]))

\* __data_process applied to a buffer whose first rx_tag_cnt time tags are
\* time_buf, after transfers sized for trigger_num triggers
call_data_process ==
    \E I \in Interpolations : \E tn \in 1..MaxTagCnt : \E n \in 0..tn :
      \E time_buf \in [1..n -> TimeValues] :
        /\ dp' = [op |-> "data_process", INTERPOLATION |-> I, trigger_num |-> tn,
                  time_buf |-> time_buf,
                  total_data |-> data_process_slices(I, time_buf, 1, 0, 0, <<>>)]
        /\ UNCHANGED <<driverVars, traceVars, ip>>

-----------------------------------------------------------------------------
(* The state after construction (__init__, __start_thread) and configure() *)

DefaultArgs == [rise_time_ms |-> 150, fall_time_ms |-> 50,
                max_scal |-> <<1, 1>>, trigger_rate_hz |-> 100000]

ConfigureRegs ==
    LET half_period == Clk(150)
        ratio == RoundDiv(DAC_MAXV * Q16, half_period)
    IN  [n \in REGISTERS |->
           CASE n = "tri_limit" -> U32(BigOf(RoundHalfEven(150 * 10000, 1000)))
             [] n = "cycle" -> U32(BigOf(1))
             [] n = "tx_period" -> U32(BigSub(BigAdd(half_period, half_period), BigOf(1)))
             [] n = "tx_tag_fall" -> U32(BigSub(half_period, BigOf(1)))
             [] n = "tx_ratio_rise" -> U32(BigOf(ratio))
             [] n = "tx_ratio_fall" -> U32(BigOf(0 - ratio))
             [] OTHER -> <<0, 0>>]

InitDriver ==
    /\ regs = ConfigureRegs
    /\ trigger_num = RoundHalfEven(150 * 10000, 1000)
    /\ stop_flag = FALSE
    /\ done_flag = TRUE
    /\ par_queue = <<>>
    /\ data_queue = <<>>
    /\ error_queue = <<>>
    /\ wpc = "idle"
    /\ cycle_target = 0
    /\ cycle = 0
    /\ ctcle_cnt = 0
    /\ error = FALSE
    /\ run_id = 0
    /\ dma = [c \in Channels |-> [state |-> "idle", slot |-> 0, cyc |-> 0]]
    /\ hw_cycles = 0
    /\ cpc = [t \in Callers |-> "idle"]
    /\ wf_arg = DefaultArgs
    /\ wf_last = [arg |-> NoArgs, twice |-> FALSE]
    /\ st_arg = 1
    /\ pl_arg = [t \in Callers |-> NoPoll]
    /\ new_data = [t \in Callers |-> <<>>]
    /\ polled = <<>>
    /\ ret = [t \in Callers |-> NoResult]
    /\ nstarts = 0

Init == InitDriver /\ net = DefaultNet /\ tr = NoTrace /\ ip = InitIp /\ dp = NoDecode

\* the configuration interface alone: every argument tuple of WfArgs
NextWf ==
    \/ \E a \in WfArgs : CallSetWaveform(a)
    \/ set_waveform

SpecWf == Init /\ [][NextWf]_vars

\* register access by name alone
NextReg ==
    \/ \E a \in AccessNames : \E v \in AccessValues : SocIp_setattr(a, v)
    \/ \E a \in AccessNames : SocIp_getattr(a)

SpecReg == Init /\ [][NextReg]_vars

\* the decode alone
NextDecode == call_data_process

SpecDecode == Init /\ [][NextDecode]_vars

-----------------------------------------------------------------------------
(* The acquisition worker, the device and the callers *)

\* bounds: the largest cycle count passed to start_tomography, and the number
\* of commands submitted in one behaviour
MaxCycle == 3
MaxStarts == 2

\* number of triggers the device reports in rx_tag_cnt for a cycle
TagCnt == 2

\* __data_process, lines 343-367: the loop over range(tag_cnt) appends one
\* record per trigger index i to total_data
RECURSIVE data_process_loop(_, _, _)
data_process_loop(i, tag_cnt, total_data) ==
    IF i >= tag_cnt THEN total_data
    ELSE data_process_loop(i + 1, tag_cnt, Append(total_data, [trigger |-> i]))

data_process(tag_cnt) == data_process_loop(0, tag_cnt, <<>>)

\* the batch of cycle c of run `run`: the list __data_process returns, with
\* the run and cycle it belongs to
Batch(run, c) == [run |-> run, cycle |-> c, data |-> data_process(TagCnt)]

\* a queue that hands out the newest item first
queue_put_front(q, item) == <<item>> \o q

\* Queue.put: queue.Queue is first in, first out
queue_put(q, item) == Append(q, item)

SetReg(r, name, n) == [r EXCEPT ![name] = U32(BigOf(n))]

\* buf_index with the parity off by one
acquire_buf_index_off(cycle_cnt) == (cycle_cnt + 1) % 2

\* __data_acquire, line 313: buf_index = cycle_cnt % 2
acquire_buf_index(cycle_cnt) == cycle_cnt % 2

\* __data_process, line 338: buf_index = cycle_cnt % 2
process_buf_index(cycle_cnt) == cycle_cnt % 2

\* recvchannel.transfer() accepts a transfer on a channel whose previous
\* transfer has completed, and raises on one that is still busy
DmaIdle == \A c \in Channels : dma[c].state # "busy"

\* the order in which __data_acquire and __data_wait go through the channels
ChanOrder == <<"dma_time", "dma_dc", "dma_graphy">>

\* __data_acquire up to and without its k+1-th transfer() call: the first k
\* channels have a receive transfer into slot buf_index, the others are as
\* they were
data_acquire_upto(k, cycle_cnt) ==
    [c \in Channels |->
       IF \E i \in 1..k : ChanOrder[i] = c
       THEN [state |-> "busy", slot |-> acquire_buf_index(cycle_cnt), cyc |-> cycle_cnt]
       ELSE dma[c]]

\* __data_acquire: one receive transfer per channel into slot buf_index
data_acquire(cycle_cnt) == data_acquire_upto(Len(ChanOrder), cycle_cnt)

\* the transfer() calls of one __data_acquire that may raise: any call up to
\* the first one on a busy channel, which must (a call also raises when the
\* channel is not started or the byte count exceeds the buffer);
\* Len(ChanOrder) + 1 stands for no call raising
AcquireRaisesAt ==
    {j \in 1..(Len(ChanOrder) + 1) :
       \A i \in 1..(j - 1) : i <= Len(ChanOrder) => dma[ChanOrder[i]].state # "busy"}

\* the thread ends at an exception instead of handling it
AfterExceptDead == "dead"

\* lines 412-414: an exception raised in the try block is caught and control
\* goes on to the finally clause
AfterExcept == "finally"

\* what str(e) of a caught exception puts on the error queue in run r
ExceptionText(r) == [run |-> r, cycle |-> 0 - 1]

\* line 402: the error the worker reports for cycle c of run r
CycleError(r, c) == [run |-> r, cycle |-> c]

\* get_state: error = (state >> 4) != 0, cycle_cnt = state & 0xF
get_state ==
    LET state == regs["rx_state"]
    IN  [error |-> (state[1] # 0 \/ state[2] \div 16 # 0),
         cycle_cnt |-> state[2] % 16]

\* lines 375-378: wait for a command and take it
run_wait_command ==
    /\ wpc = "idle"
    /\ par_queue # <<>>
    /\ cycle_target' = Head(par_queue)
    /\ par_queue' = Tail(par_queue)
    /\ run_id' = run_id + 1
    /\ wpc' = "arm"
    /\ UNCHANGED <<traceVars, unitVars, devVars, flagVars, data_queue, error_queue, cycle, ctcle_cnt,
                   error, hwVars, cpc, wf_arg, wf_last, st_arg, pollVars, ret,
                   nstarts>>

\* lines 380-383: arm the first transfer into slot 0; a transfer() call that
\* raises leaves the channels before it armed and is caught at line 412
run_arm ==
    /\ wpc = "arm"
    /\ \E j \in AcquireRaisesAt :
         IF j > Len(ChanOrder)
         THEN /\ dma' = data_acquire(0)
              /\ wpc' = "start"
              /\ UNCHANGED error_queue
         ELSE /\ dma' = data_acquire_upto(j - 1, 0)
              /\ error_queue' = Append(error_queue, ExceptionText(run_id))
              /\ wpc' = AfterExcept
    /\ UNCHANGED <<traceVars, unitVars, devVars, flagVars, par_queue, data_queue, cycle_target, cycle,
                   ctcle_cnt, error, run_id, hw_cycles, cpc, wf_arg, wf_last,
                   st_arg, pollVars, ret, nstarts>>

\* the loop condition letting one more pass through
cycles_remain_one_more(cnt, target) == cnt <= target

\* line 390: while ctcle_cnt < cycle_target
cycles_remain(cnt, target) == cnt < target

\* lines 385-390: reset the locals and assert the start bit; the device begins
\* a new acquisition with its cycle counter and error flag cleared
run_start ==
    /\ wpc = "start"
    /\ error' = FALSE
    /\ cycle' = 0
    /\ ctcle_cnt' = 0
    /\ regs' = SetReg(SetReg(regs, "start", 1), "rx_state", 0)
    /\ hw_cycles' = 0
    /\ wpc' = IF cycles_remain(0, cycle_target) THEN "wait" ELSE "finally"
    /\ UNCHANGED <<traceVars, unitVars, trigger_num, flagVars, queueVars, cycle_target, run_id, dma,
                   cpc, wf_arg, wf_last, st_arg, pollVars, ret, nstarts>>

\* line 391, __data_wait: block until the three transfers have completed
run_data_wait ==
    /\ wpc = "wait"
    /\ \A c \in Channels : dma[c].state = "complete"
    /\ dma' = [c \in Channels |-> [dma[c] EXCEPT !.state = "idle"]]
    /\ wpc' = "poll"
    /\ UNCHANGED <<traceVars, unitVars, devVars, flagVars, queueVars, cycle_target, cycle, ctcle_cnt,
                   error, run_id, hw_cycles, cpc, wf_arg, wf_last, st_arg,
                   pollVars, ret, nstarts>>

\* the loop condition comparing with the unmasked cycle count
poll_goes_on_unmasked(cycle_read, cnt) == cycle_read = cnt

\* line 393: while cycle == (ctcle_cnt & 0xF)
poll_goes_on(cycle_read, cnt) == cycle_read = cnt % 16

\* lines 393-397: one pass of the loop that polls the state register
run_poll_state ==
    /\ wpc = "poll"
    /\ IF poll_goes_on(cycle, ctcle_cnt) /\ ~stop_flag
       THEN /\ error' = get_state.error
            /\ cycle' = get_state.cycle_cnt
            /\ wpc' = "poll"
       ELSE /\ wpc' = "check"
            /\ UNCHANGED <<error, cycle>>
    /\ UNCHANGED <<traceVars, unitVars, devVars, flagVars, queueVars, cycle_target, ctcle_cnt, run_id,
                   hwVars, cpc, wf_arg, wf_last, st_arg, pollVars, ret, nstarts>>

\* lines 399-406: leave on a stop request; otherwise report the error flag,
\* count the cycle and arm the next transfer if a cycle remains
run_check ==
    /\ wpc = "check"
    /\ IF stop_flag
       THEN /\ wpc' = "finally"
            /\ UNCHANGED <<error_queue, ctcle_cnt, dma>>
       ELSE /\ ctcle_cnt' = ctcle_cnt + 1
            /\ LET q == IF error
                        THEN Append(error_queue, CycleError(run_id, ctcle_cnt))
                        ELSE error_queue
               IN  IF ctcle_cnt + 1 < cycle_target
                   THEN \E j \in AcquireRaisesAt :
                          IF j > Len(ChanOrder)
                          THEN /\ error_queue' = q
                               /\ dma' = data_acquire(ctcle_cnt + 1)
                               /\ wpc' = "process"
                          ELSE /\ error_queue' = Append(q, ExceptionText(run_id))
                               /\ dma' = data_acquire_upto(j - 1, ctcle_cnt + 1)
                               /\ wpc' = AfterExcept
                   ELSE /\ error_queue' = q
                        /\ wpc' = "process"
                        /\ UNCHANGED dma
    /\ UNCHANGED <<traceVars, unitVars, devVars, flagVars, par_queue, data_queue, cycle_target, cycle,
                   error, run_id, hw_cycles, cpc, wf_arg, wf_last, st_arg,
                   pollVars, ret, nstarts>>

\* line 408, __data_process(ctcle_cnt - 1): the decode reads its buffer slot
\* for as long as the worker is at "process"; this step ends the decode
run_data_process ==
    /\ wpc = "process"
    /\ wpc' = "put"
    /\ UNCHANGED <<traceVars, unitVars, devVars, flagVars, queueVars, cycle_target, cycle, ctcle_cnt,
                   error, run_id, hwVars, cpc, wf_arg, wf_last, st_arg, pollVars,
                   ret, nstarts>>

\* lines 391 and 408, 412-413: recvchannel.wait() raises (the DMA engine
\* reports an error) or __data_process raises (an index past the end of a
\* buffer); the handler puts str(e) on the error queue
run_raise ==
    /\ wpc \in {"wait", "process"}
    /\ error_queue' = Append(error_queue, ExceptionText(run_id))
    /\ wpc' = AfterExcept
    /\ UNCHANGED <<traceVars, unitVars, devVars, flagVars, par_queue, data_queue, cycle_target, cycle,
                   ctcle_cnt, error, run_id, hwVars, cpc, wf_arg, wf_last, st_arg,
                   pollVars, ret, nstarts>>

\* lines 411 and 390: push the batch and test the loop condition
run_put ==
    /\ wpc = "put"
    /\ data_queue' = queue_put(data_queue, Batch(run_id, ctcle_cnt - 1))
    /\ wpc' = IF cycles_remain(ctcle_cnt, cycle_target) THEN "wait" ELSE "finally"
    /\ UNCHANGED <<traceVars, unitVars, devVars, flagVars, par_queue, error_queue, cycle_target, cycle,
                   ctcle_cnt, error, run_id, hwVars, cpc, wf_arg, wf_last, st_arg,
                   pollVars, ret, nstarts>>

\* the finally clause without its write of the start register
finally_start_skipped(r) == r

\* line 415, the first statement of the finally clause: self.start = 0
finally_start(r) == SetReg(r, "start", 0)

\* line 415: self.start = 0
run_clear_start ==
    /\ wpc = "finally"
    /\ regs' = finally_start(regs)
    /\ wpc' = "set_done"
    /\ UNCHANGED <<traceVars, unitVars, trigger_num, flagVars, queueVars, cycle_target, cycle,
                   ctcle_cnt, error, run_id, hwVars, cpc, wf_arg, wf_last, st_arg,
                   pollVars, ret, nstarts>>

\* line 416: self.done_flag.set(), and back to waiting for a command; the
\* locals of the run are dead from here on (each is assigned anew, at lines
\* 378 and 385-387, before it is read again)
run_set_done ==
    /\ wpc = "set_done"
    /\ done_flag' = TRUE
    /\ wpc' = "idle"
    /\ cycle_target' = 0
    /\ cycle' = 0
    /\ ctcle_cnt' = 0
    /\ error' = FALSE
    /\ UNCHANGED <<traceVars, unitVars, devVars, stop_flag, queueVars, run_id, hwVars, cpc, wf_arg,
                   wf_last, st_arg, pollVars, ret, nstarts>>

run_tomography ==
    \/ run_wait_command
    \/ run_arm
    \/ run_start
    \/ run_data_wait
    \/ run_poll_state
    \/ run_check
    \/ run_data_process
    \/ run_raise
    \/ run_put
    \/ run_clear_start
    \/ run_set_done

(* The device: while start is asserted it completes cycles, up to the number *)
(* in the cycle register, counting them in rx_state bits 0..3, and may raise *)
(* the error flag, rx_state bit 4; a DMA transfer in flight completes.       *)

Started == regs["start"] = <<0, 1>>

HwCycleDone ==
    /\ Started
    /\ hw_cycles < regs["cycle"][2]
    /\ hw_cycles' = hw_cycles + 1
    /\ regs' = [regs EXCEPT !["rx_state"] =
                  <<0, ((regs["rx_state"][2] \div 16) * 16) + ((hw_cycles + 1) % 16)>>]
    /\ UNCHANGED <<traceVars, unitVars, trigger_num, flagVars, queueVars, workerVars, dma, cpc, wf_arg,
                   wf_last, st_arg, pollVars, ret, nstarts>>

HwError ==
    /\ Started
    /\ regs["rx_state"][2] \div 16 = 0
    /\ regs' = [regs EXCEPT !["rx_state"] = <<0, regs["rx_state"][2] + 16>>]
    /\ UNCHANGED <<traceVars, unitVars, trigger_num, flagVars, queueVars, workerVars, hwVars, cpc,
                   wf_arg, wf_last, st_arg, pollVars, ret, nstarts>>

DmaComplete(c) ==
    /\ dma[c].state = "busy"
    /\ dma' = [dma EXCEPT ![c].state = "complete"]
    /\ UNCHANGED <<traceVars, unitVars, devVars, flagVars, queueVars, workerVars, hw_cycles, cpc,
                   wf_arg, wf_last, st_arg, pollVars, ret, nstarts>>

-----------------------------------------------------------------------------
(* start_tomography, run by the caller "ctl" *)

\* start_tomography without its own check of the argument
StartRejectsNothing(c) == FALSE

\* line 253: the check of the argument at the top of start_tomography
StartRejects(c) == c < 1

\* line 178: set_cycle's own check
SetCycleRejects(c) == c < 1

\* done_flag.wait() replaced by nothing: the caller goes on at once
DoneNotWaited == TRUE

\* line 261: done_flag.wait() returns
DoneWaitReturns == done_flag

CallStartTomography(c) ==
    /\ cpc["ctl"] = "idle"
    /\ nstarts < MaxStarts
    /\ cpc' = [cpc EXCEPT !["ctl"] = "start_tomography"]
    /\ st_arg' = c
    /\ UNCHANGED <<traceVars, unitVars, devVars, flagVars, queueVars, workerVars, hwVars, wf_arg,
                   wf_last, pollVars, ret, nstarts>>

\* lines 253-260: reject cycle < 1; the worker thread is alive; request a
\* stop if the done flag is not set
start_check ==
    /\ cpc["ctl"] = "start_tomography"
    /\ IF StartRejects(st_arg)
       THEN /\ cpc' = [cpc EXCEPT !["ctl"] = "idle"]
            /\ ret' = [ret EXCEPT !["ctl"] =
                         Result("start_tomography", "raised", <<>>, <<>>)]
            /\ UNCHANGED stop_flag
       ELSE IF ~done_flag
       THEN /\ stop_flag' = TRUE
            /\ cpc' = [cpc EXCEPT !["ctl"] = "st_wait"]
            /\ UNCHANGED ret
       ELSE /\ cpc' = [cpc EXCEPT !["ctl"] = "st_drain"]
            /\ UNCHANGED <<stop_flag, ret>>
    /\ UNCHANGED <<traceVars, unitVars, devVars, done_flag, queueVars, workerVars, hwVars, wf_arg,
                   wf_last, st_arg, pollVars, nstarts>>

\* lines 261-262: wait for done, then clear the stop flag
start_wait_done ==
    /\ cpc["ctl"] = "st_wait"
    /\ DoneWaitReturns
    /\ stop_flag' = FALSE
    /\ cpc' = [cpc EXCEPT !["ctl"] = "st_drain"]
    /\ UNCHANGED <<traceVars, unitVars, devVars, done_flag, queueVars, workerVars, hwVars, wf_arg,
                   wf_last, st_arg, pollVars, ret, nstarts>>

\* lines 264-265: if the data queue is not empty, poll_data(totaltime=-1)
start_drain ==
    /\ cpc["ctl"] = "st_drain"
    /\ IF data_queue # <<>>
       THEN /\ cpc' = [cpc EXCEPT !["ctl"] = "drain_loop"]
            /\ pl_arg' = [pl_arg EXCEPT !["ctl"] = PollArg(0 - 1)]
            /\ new_data' = [new_data EXCEPT !["ctl"] = <<>>]
            /\ UNCHANGED polled
       ELSE /\ cpc' = [cpc EXCEPT !["ctl"] = "st_submit"]
            /\ UNCHANGED pollVars
    /\ UNCHANGED <<traceVars, unitVars, devVars, flagVars, queueVars, workerVars, hwVars, wf_arg,
                   wf_last, st_arg, ret, nstarts>>

\* lines 267-269: clear done, set_cycle(cycle), put the command
start_submit ==
    /\ cpc["ctl"] = "st_submit"
    /\ done_flag' = FALSE
    /\ cpc' = [cpc EXCEPT !["ctl"] = "idle"]
    /\ IF SetCycleRejects(st_arg)
       THEN /\ ret' = [ret EXCEPT !["ctl"] =
                         Result("start_tomography", "raised", <<>>, <<>>)]
            /\ UNCHANGED <<regs, par_queue, nstarts>>
       ELSE /\ regs' = SetReg(regs, "cycle", st_arg)
            /\ par_queue' = Append(par_queue, st_arg)
            /\ nstarts' = nstarts + 1
            /\ ret' = [ret EXCEPT !["ctl"] =
                         Result("start_tomography", "ok", <<>>, <<>>)]
    /\ UNCHANGED <<traceVars, unitVars, trigger_num, stop_flag, data_queue, error_queue, workerVars,
                   hwVars, wf_arg, wf_last, st_arg, pollVars>>

-----------------------------------------------------------------------------
(* poll_data: called by the caller "pol", and by "ctl" inside               *)
(* start_tomography (line 265), whose result is dropped                     *)

TotalTimes == {0 - 1, 0, 1}

LoopPc(t) == IF t = "ctl" THEN "drain_loop" ELSE "poll_loop"
GetPc(t) == IF t = "ctl" THEN "drain_get" ELSE "poll_get"

\* line 280: may time.time() < time_end be false? Never for a negative
\* totaltime (the first disjunct holds), always for totaltime = 0, and for a
\* positive totaltime whenever enough time has passed
TimeOver(totaltime) ==
    IF totaltime < 0 THEN {FALSE}
    ELSE IF totaltime = 0 THEN {TRUE}
    ELSE {FALSE, TRUE}

\* the wait of line 287 treated as a failure of the call
TimeoutRaises(t) == Result("poll_data", "raised", <<>>, <<>>)

\* lines 292-294: queue.Empty after one wait of timeout ends the loop and
\* poll_data returns (True, new_data)
TimeoutResult(t) == Result("poll_data", "ok", new_data[t], <<>>)

\* poll_data returns to its caller; its locals go out of scope
PollReturn(t, result) ==
    /\ pl_arg' = [pl_arg EXCEPT ![t] = NoPoll]
    /\ new_data' = [new_data EXCEPT ![t] = <<>>]
    /\ IF t = "ctl"
       THEN /\ cpc' = [cpc EXCEPT ![t] = "st_submit"]
            /\ UNCHANGED <<ret, polled>>
       ELSE /\ cpc' = [cpc EXCEPT ![t] = "idle"]
            /\ ret' = [ret EXCEPT ![t] = result]
            /\ polled' = polled \o result.data

CallPollData(totaltime) ==
    /\ cpc["pol"] = "idle"
    /\ cpc' = [cpc EXCEPT !["pol"] = "poll_loop"]
    /\ pl_arg' = [pl_arg EXCEPT !["pol"] = PollArg(totaltime)]
    /\ new_data' = [new_data EXCEPT !["pol"] = <<>>]
    /\ ret' = [ret EXCEPT !["pol"] = NoResult]
    /\ UNCHANGED polled
    /\ UNCHANGED <<traceVars, unitVars, devVars, flagVars, queueVars, workerVars, hwVars, wf_arg,
                   wf_last, st_arg, nstarts>>

\* lines 280-285: the loop condition, then error_queue.get(block=False)
poll_loop(t) ==
    /\ cpc[t] = LoopPc(t)
    /\ \E over \in TimeOver(pl_arg[t].totaltime) :
         IF over
         THEN /\ PollReturn(t, Result("poll_data", "ok", new_data[t], <<>>))
              /\ UNCHANGED error_queue
         ELSE IF error_queue # <<>>
         THEN /\ error_queue' = Tail(error_queue)
              /\ PollReturn(t, Result("poll_data", "error", <<>>,
                                      <<Head(error_queue)>>))
         ELSE /\ cpc' = [cpc EXCEPT ![t] = GetPc(t)]
              /\ UNCHANGED <<error_queue, ret, pollVars>>
    /\ UNCHANGED <<traceVars, unitVars, devVars, flagVars, par_queue, data_queue, workerVars, hwVars,
                   wf_arg, wf_last, st_arg, nstarts>>

\* Queue.get(block=True, timeout) on an empty queue: raises Empty once the
\* timeout has passed; with timeout=None it blocks until an item is put
GetTimesOut(timeout) == timeout # "None"

\* lines 287-293: data_queue.get(block=True, timeout=timeout); a batch taken
\* while the stop flag is set ends the loop before it is appended
poll_get(t) ==
    /\ cpc[t] = GetPc(t)
    /\ IF data_queue # <<>>
       THEN /\ data_queue' = Tail(data_queue)
            /\ IF stop_flag
               THEN PollReturn(t, Result("poll_data", "ok", new_data[t], <<>>))
               ELSE /\ new_data' = [new_data EXCEPT ![t] = Append(@, Head(data_queue))]
                    /\ cpc' = [cpc EXCEPT ![t] = LoopPc(t)]
                    /\ UNCHANGED <<ret, pl_arg, polled>>
       ELSE /\ GetTimesOut(pl_arg[t].timeout)
            /\ PollReturn(t, TimeoutResult(t))
            /\ UNCHANGED data_queue
    /\ UNCHANGED <<traceVars, unitVars, devVars, flagVars, par_queue, error_queue, workerVars, hwVars,
                   wf_arg, wf_last, st_arg, nstarts>>

-----------------------------------------------------------------------------

\* the worker, the device and a caller that starts runs and never polls
NextRun ==
    \/ run_tomography
    \/ HwCycleDone
    \/ HwError
    \/ \E c \in Channels : DmaComplete(c)
    \/ \E c \in 0..MaxCycle : CallStartTomography(c)
    \/ start_check
    \/ start_wait_done
    \/ start_drain
    \/ start_submit
    \/ poll_loop("ctl")
    \/ poll_get("ctl")

SpecRun == Init /\ [][NextRun]_vars

\* SpecRun with the scheduling the threads get: the worker thread and the
\* caller's thread each go on running when they can. Nothing is assumed of
\* the device or the DMA engines, nor that an exception is ever raised.
run_steps ==
    \/ run_wait_command
    \/ run_arm
    \/ run_start
    \/ run_data_wait
    \/ run_poll_state
    \/ run_check
    \/ run_data_process
    \/ run_put
    \/ run_clear_start
    \/ run_set_done

start_steps ==
    \/ start_check
    \/ start_wait_done
    \/ start_drain
    \/ start_submit
    \/ poll_loop("ctl")
    \/ poll_get("ctl")

SpecRunFair == SpecRun /\ WF_vars(run_steps) /\ WF_vars(start_steps)

\* the same with a second caller that polls at any time
Next ==
    \/ NextRun
    \/ \E tt \in TotalTimes : CallPollData(tt)
    \/ poll_loop("pol")
    \/ poll_get("pol")

Spec == Init /\ [][Next]_vars

\* the cycle count of a run long enough for the 4-bit cycle counter of
\* rx_state to wrap
LongCycle == 17

\* a run of LongCycle cycles, and a second start_tomography(1) that may
\* request its stop
NextLong ==
    \/ run_tomography
    \/ HwCycleDone
    \/ HwError
    \/ \E c \in Channels : DmaComplete(c)
    \/ \E c \in {1, LongCycle} :
         (c = LongCycle <=> nstarts = 0) /\ CallStartTomography(c)
    \/ start_check
    \/ start_wait_done
    \/ start_drain
    \/ start_submit
    \/ poll_loop("ctl")
    \/ poll_get("ctl")

SpecLong == Init /\ [][NextLong]_vars

\* the arguments of the set_waveform calls made between runs: the method's
\* defaults, and the same with a rise time of 1 ms
WfRunArgs ==
    {a \in WfArgs : /\ a.rise_time_ms \in {1, 150}
                    /\ a.fall_time_ms = 50
                    /\ a.max_scal = <<1, 1>>
                    /\ a.trigger_rate_hz = 100000}

\* a caller that sets the waveform and starts runs of one cycle
NextWfRun ==
    \/ run_tomography
    \/ HwCycleDone
    \/ \E c \in Channels : DmaComplete(c)
    \/ \E a \in WfRunArgs : CallSetWaveform(a)
    \/ set_waveform
    \/ CallStartTomography(1)
    \/ start_check
    \/ start_wait_done
    \/ start_drain
    \/ start_submit
    \/ poll_loop("ctl")
    \/ poll_get("ctl")

SpecWfRun == Init /\ [][NextWfRun]_vars

\* a step of the worker in which nothing raises: with the error bit clear,
\* the worker puts nothing on the error queue
run_no_fault == run_steps /\ error_queue' = error_queue

start_once ==
    \/ \E c \in 1..MaxCycle : nstarts = 0 /\ CallStartTomography(c)
    \/ start_check
    \/ start_drain
    \/ start_submit

\* one command on a device that works: every transfer completes, the cycle
\* counter advances up to the cycle count, the error bit stays clear, no
\* call raises and no stop is requested
NextLive ==
    \/ run_no_fault
    \/ HwCycleDone
    \/ \E c \in Channels : DmaComplete(c)
    \/ start_once

SpecLive ==
    /\ Init
    /\ [][NextLive]_vars
    /\ WF_vars(run_no_fault)
    /\ WF_vars(HwCycleDone)
    /\ \A c \in Channels : WF_vars(DmaComplete(c))
    /\ WF_vars(start_once)

\* one run, started by a caller that then stays away, and a caller that polls
NextPoll ==
    \/ run_tomography
    \/ HwCycleDone
    \/ HwError
    \/ \E c \in Channels : DmaComplete(c)
    \/ \E c \in 1..MaxCycle : nstarts = 0 /\ CallStartTomography(c)
    \/ start_check
    \/ start_drain
    \/ start_submit
    \/ \E tt \in TotalTimes : CallPollData(tt)
    \/ poll_loop("pol")
    \/ poll_get("pol")

SpecPoll == Init /\ [][NextPoll]_vars

\* runs of one cycle, the second start_tomography possibly stopping the
\* first run, and a caller that polls with totaltime=-1 at any time
NextRestart ==
    \/ run_tomography
    \/ HwCycleDone
    \/ HwError
    \/ \E c \in Channels : DmaComplete(c)
    \/ CallStartTomography(1)
    \/ start_check
    \/ start_wait_done
    \/ start_drain
    \/ start_submit
    \/ poll_loop("ctl")
    \/ poll_get("ctl")
    \/ CallPollData(0 - 1)
    \/ poll_loop("pol")
    \/ poll_get("pol")

SpecRestart == Init /\ [][NextRestart]_vars

-----------------------------------------------------------------------------
(* The SOC interface (src/qsz007/qsz007.py): calls addressed to a channel,  *)
(* an index into the list socip of the AxisTomography blocks               *)

\* len(self.socip): the design has one AxisTomography block
NumSocip == 1

\* the channel indices and the timeouts the callers pass
Chs == (0 - 1)..NumSocip
SocTimeouts == {"None", "timed"}

\* the check of the channel without its test for a negative index
BadChannelHigh(ch) == ch > NumSocip - 1

\* lines 259 and 272: ch > len(self.socip) - 1 or ch < 0
BadChannel(ch) == ch > NumSocip - 1 \/ ch < 0

\* self.socip[ch] of a Python list: an index from -len to len - 1 names an
\* element (a negative one counts from the end), any other raises IndexError
ListHas(ch) == 0 - NumSocip <= ch /\ ch < NumSocip

\* SOC.start_tomography(ch, cycle), lines 255-266, up to the call of the
\* channel's start_tomography; every element of socip is an AxisTomography
\* (line 187), so the isinstance test of line 261 passes
soc_start_tomography(ch, c) ==
    /\ cpc["ctl"] = "idle"
    /\ IF BadChannel(ch) \/ ~ListHas(ch)
       THEN /\ ret' = [ret EXCEPT !["ctl"] =
                         Result("SOC.start_tomography",
                                IF BadChannel(ch) THEN "ValueError" ELSE "IndexError",
                                <<>>, <<>>)]
            /\ UNCHANGED <<cpc, st_arg>>
       ELSE /\ nstarts < MaxStarts
            /\ cpc' = [cpc EXCEPT !["ctl"] = "start_tomography"]
            /\ st_arg' = c
            /\ UNCHANGED ret
    /\ UNCHANGED <<traceVars, unitVars, devVars, flagVars, queueVars, workerVars, hwVars, wf_arg,
                   wf_last, pollVars, nstarts>>

\* SOC.poll_data(ch, totaltime, timeout), lines 268-277, up to the call of
\* the channel's poll_data(totaltime, timeout)
soc_poll_data(ch, totaltime, timeout) ==
    /\ cpc["pol"] = "idle"
    /\ IF BadChannel(ch) \/ ~ListHas(ch)
       THEN /\ ret' = [ret EXCEPT !["pol"] =
                         Result("SOC.poll_data",
                                IF BadChannel(ch) THEN "ValueError" ELSE "IndexError",
                                <<>>, <<>>)]
            /\ UNCHANGED <<cpc, pollVars>>
       ELSE /\ cpc' = [cpc EXCEPT !["pol"] = "poll_loop"]
            /\ pl_arg' = [pl_arg EXCEPT !["pol"] = PollArgT(totaltime, timeout)]
            /\ new_data' = [new_data EXCEPT !["pol"] = <<>>]
            /\ ret' = [ret EXCEPT !["pol"] = NoResult]
            /\ UNCHANGED polled
    /\ UNCHANGED <<traceVars, unitVars, devVars, flagVars, queueVars, workerVars, hwVars, wf_arg,
                   wf_last, st_arg, nstarts>>

\* the SOC interface: one run, started through SOC.start_tomography, calls
\* with an index that names no channel at any time, and a caller that polls
\* through SOC.poll_data
NextSoc ==
    \/ run_tomography
    \/ HwCycleDone
    \/ HwError
    \/ \E c \in Channels : DmaComplete(c)
    \/ \E ch \in Chs : \E c \in 1..MaxCycle :
         (nstarts = 0 \/ ch \notin 0..(NumSocip - 1)) /\ soc_start_tomography(ch, c)
    \/ start_check
    \/ start_drain
    \/ start_submit
    \/ \E ch \in Chs : \E tt \in TotalTimes : \E to \in SocTimeouts :
         soc_poll_data(ch, tt, to)
    \/ poll_loop("pol")
    \/ poll_get("pol")

SpecSoc == Init /\ [][NextSoc]_vars

\* SpecSoc with the scheduling the threads get: the worker's thread and each
\* caller's thread go on running when they can
poll_steps ==
    \/ poll_loop("pol")
    \/ poll_get("pol")

SpecSocFair ==
    SpecSoc /\ WF_vars(run_steps) /\ WF_vars(start_steps) /\ WF_vars(poll_steps)

-----------------------------------------------------------------------------
(* The port tracer applied to a netlist *)

\* Metadata.trace_bus(blockname, portname) on a port the parser knows
call_trace_bus ==
    \E e \in DOMAIN net.pins :
      LET r == trace_bus(net, BlockOf(e), PortOf(e))
      IN  \E lst \in Orders(r.ends) :
            /\ tr' = [op |-> "trace_bus", block |-> BlockOf(e),
                      port |-> PortOf(e), raised |-> r.raised, result |-> lst]
            /\ UNCHANGED <<driverVars, unitVars, net>>

\* Metadata.trace_back(fullpath, ADC_RFDC_PORT, goal_types)
call_trace_back ==
    \E o \in trace_back(net, TOMO, "S0_ADC") :
      /\ tr' = [op |-> "trace_back", out |-> o]
      /\ UNCHANGED <<driverVars, unitVars, net>>

\* Metadata.trace_forward(fullpath, port, goal_types, block_number)
call_trace_forward ==
    \E bn \in BlockNumbers :
      \E o \in trace_forward(net, TOMO, "M0_ADC", bn) :
        /\ tr' = [op |-> "trace_forward", block_number |-> bn, out |-> o]
        /\ UNCHANGED <<driverVars, unitVars, net>>

\* the tracer applied to each netlist of Netlists
InitTrace ==
    InitDriver /\ net \in Netlists /\ tr = NoTrace /\ ip = InitIp /\ dp = NoDecode

NextTrace ==
    \/ call_trace_bus
    \/ call_trace_back
    \/ call_trace_forward

SpecTrace == InitTrace /\ [][NextTrace]_vars

\* netlists in which the blocks can form a cycle: h/x has a second input
\* port S01_AXIS and may be a multiplexer, y may be a register slice, and an
\* input may be wired to the output of the block behind it
LoopBusOf == [e \in {FullPort(TOMO, "M0_ADC"), FullPort(BLK_X, "M00_AXIS"),
                     FullPort(BLK_X, "M01_AXIS"), FullPort(BLK_Y, "M_AXIS")} |->
                CASE e = FullPort(TOMO, "M0_ADC") -> "n_tomo"
                  [] e = FullPort(BLK_X, "M00_AXIS") -> "n_x0"
                  [] e = FullPort(BLK_X, "M01_AXIS") -> "n_x1"
                  [] OTHER -> "n_y"]

LoopInputBuses ==
    [e \in {FullPort(TOMO, "S0_ADC"), FullPort(BLK_X, "S_AXIS"),
            FullPort(BLK_X, "S01_AXIS"), FullPort(BLK_Y, "S_AXIS")} |->
       CASE e = FullPort(TOMO, "S0_ADC") -> {"__NOC__", "n_x0", "n_y"}
         [] e = FullPort(BLK_X, "S_AXIS") -> {"__NOC__", "n_tomo", "n_x1", "n_y"}
         [] e = FullPort(BLK_X, "S01_AXIS") -> {"__NOC__", "n_tomo", "n_y"}
         [] OTHER -> {"__NOC__", "n_tomo", "n_x0", "n_x1"}]

LoopXTypes == {"axis_broadcaster", "axis_wf_mux", "axi_dma"}
LoopYTypes == {"axis_register_slice", "axi_dma"}

LoopNetlists ==
    {[pins |-> [e \in (DOMAIN LoopBusOf) \cup (DOMAIN LoopInputBuses) |->
                  IF e \in DOMAIN LoopBusOf THEN LoopBusOf[e] ELSE w[e]],
      mod2type |-> [b \in {TOMO, BLK_X, BLK_Y} |->
                      CASE b = TOMO -> "axis_tomography"
                        [] b = BLK_X -> tx
                        [] OTHER -> ty],
      num_mi |-> k] :
       w \in {f \in [DOMAIN LoopInputBuses -> {"__NOC__", "n_tomo", "n_x0",
                                                "n_x1", "n_y"}] :
                \A e \in DOMAIN LoopInputBuses : f[e] \in LoopInputBuses[e]},
       tx \in LoopXTypes, ty \in LoopYTypes, k \in NumMis}

\* the two walks applied to each netlist of LoopNetlists
InitTraceLoop ==
    InitDriver /\ net \in LoopNetlists /\ tr = NoTrace /\ ip = InitIp /\ dp = NoDecode

NextTraceLoop ==
    \/ call_trace_back
    \/ call_trace_forward

SpecTraceLoop == InitTraceLoop /\ [][NextTraceLoop]_vars

-----------------------------------------------------------------------------
(* Properties of the worker and of start_tomography *)

\* the worker is between taking a command and setting done
InRun == wpc # "idle"

InFlight(c) == dma[c].state # "idle"

\* cycles of the current run whose decode has finished
Decoded == IF wpc = "process" THEN ctcle_cnt - 1 ELSE ctcle_cnt

\* C1: while __data_process reads buffer slot (decoded cycle index mod 2), no
\* receive transfer that is armed and not yet waited for targets that slot;
\* and a transfer for cycle i+2 is in flight only once the decode of cycle i
\* has finished.
C1_DoubleBuffer ==
    /\ wpc = "process"
         => \A c \in Channels :
              InFlight(c) => dma[c].slot # process_buf_index(ctcle_cnt - 1)
    /\ wpc \in {"wait", "poll", "check", "process", "put"}
         => \A c \in Channels :
              (InFlight(c) /\ dma[c].cyc >= 2) => Decoded > dma[c].cyc - 2

C1_Witness ==
    /\ wpc = "process"
    /\ ctcle_cnt = 2
    /\ \E c \in Channels :
         dma[c].state = "busy" /\ dma[c].cyc = 2 /\ dma[c].slot = 0
    /\ \E c \in Channels : dma[c].state = "complete"

\* C3: at most one run is in flight: a command never waits on the queue
\* behind a run in progress or behind another command, done is clear for the
\* whole of a run, and the worker begins arming a run only with the start bit
\* of the previous run cleared.
C3_OneRunInFlight ==
    /\ Len(par_queue) <= 1
    /\ InRun => par_queue = <<>>
    /\ (InRun \/ par_queue # <<>>) => ~done_flag
    /\ wpc = "arm" => regs["start"] = <<0, 0>>
    /\ run_id <= nstarts

C3_Witness ==
    /\ cpc["ctl"] = "st_wait"
    /\ stop_flag
    /\ wpc = "finally"
    /\ ctcle_cnt < cycle_target
    /\ run_id = 1

\* C9: start_tomography(cycle) with cycle < 1 raises and changes nothing: the
\* flags, the three queues, the registers (the cycle register among them) and
\* the worker with any run in progress stay as they were.
C9_BadCycleNoEffect ==
    [][(cpc["ctl"] = "start_tomography" /\ cpc'["ctl"] # "start_tomography"
          /\ st_arg < 1)
         => (/\ cpc'["ctl"] = "idle"
             /\ ret'["ctl"] = Result("start_tomography", "raised", <<>>, <<>>)
             /\ UNCHANGED <<flagVars, queueVars, devVars, workerVars, hwVars>>)]_vars

C9_Witness ==
    /\ cpc["ctl"] = "idle"
    /\ ret["ctl"] = Result("start_tomography", "raised", <<>>, <<>>)
    /\ st_arg < 1
    /\ wpc = "poll"
    /\ ~done_flag

\* C24: however the worker leaves a run (all cycles done, stop observed,
\* hardware fault, exception), it clears the start register before it sets
\* the done flag: the start register is 0 when the worker is about to set
\* done, and in every state in which the done flag is set, the worker waiting
\* for a command or not.
C24_StartClearedThenDone ==
    /\ wpc = "set_done" => regs["start"] = <<0, 0>>
    /\ done_flag => regs["start"] = <<0, 0>>
    /\ (done_flag /\ wpc = "idle") => ~Started

C24_Witness ==
    /\ done_flag
    /\ wpc = "idle"
    /\ run_id = 2
    /\ \E i \in 1..Len(error_queue) :
         error_queue[i] = ExceptionText(2)
    /\ \E i \in 1..Len(error_queue) :
         error_queue[i].run = 1 /\ error_queue[i].cycle >= 0

\* C25 as stated: when the worker leaves the loop that polls the state
\* register for cycle i with no stop requested, the low 4 bits it read last
\* equal i mod 16.
C25_PollUntilEqual ==
    (wpc = "check" /\ ~stop_flag) => cycle = ctcle_cnt % 16

\* C25 as amended: for each cycle index i of a run, the worker polls the state
\* register only once the transfers of cycle i have been waited for; it goes
\* on reading while the low 4 bits it read equal i mod 16 and no stop is
\* requested; it leaves the loop only when they differ from i mod 16 or a
\* stop is requested; and it goes on to count and decode cycle i only from
\* there, with no stop requested. This includes the cycles from 16 on, where
\* i mod 16 starts again at 0.
C25_PollUntilChanged ==
    /\ [](wpc \in {"poll", "check"}
            => \A c \in Channels : dma[c].state = "idle")
    /\ []((wpc = "check" /\ ~stop_flag) => cycle # ctcle_cnt % 16)
    /\ [][(wpc = "poll" /\ wpc' = "check")
            => (cycle # ctcle_cnt % 16 \/ stop_flag)]_vars
    /\ [][(wpc = "poll" /\ cycle' # cycle)
            => (/\ cycle = ctcle_cnt % 16
                /\ cycle' = regs["rx_state"][2] % 16
                /\ error' = (regs["rx_state"][2] \div 16 # 0)
                /\ wpc' = "poll")]_vars
    /\ [][(wpc # "process" /\ wpc' = "process")
            => (/\ wpc = "check"
                /\ ~stop_flag
                /\ cycle # ctcle_cnt % 16
                /\ ctcle_cnt' = ctcle_cnt + 1)]_vars

C25_Witness ==
    /\ wpc = "check"
    /\ ~stop_flag
    /\ ctcle_cnt = 16
    /\ cycle = 1
    /\ hw_cycles = 17

\* the channels on which this step issues a receive transfer
Issued == {c \in Channels : dma'[c] # dma[c] /\ dma'[c].state = "busy"}

\* C26: a step of the worker issues transfers only (1) for cycle 0 into slot
\* 0, before the start register is set to 1, or (2) for cycle i+1 into slot
\* (i+1) mod 2, after the transfers of cycle i have completed and before
\* cycle i is decoded, when i+1 < cycle_count and neither a stop nor a
\* hardware error was observed for cycle i; so none is issued after the last
\* cycle.
C26_ArmingOrder ==
    [][(Issued # {})
         => \/ /\ wpc = "arm"
               /\ regs["start"] = <<0, 0>>
               /\ \A c \in Issued : dma'[c].slot = 0 /\ dma'[c].cyc = 0
            \/ /\ wpc = "check"
               /\ wpc' \in {"process", AfterExcept}
               /\ \A c \in Channels : dma[c].state = "idle"
               /\ ctcle_cnt + 1 < cycle_target
               /\ ~stop_flag
               /\ ~error
               /\ \A c \in Issued :
                    /\ dma'[c].cyc = ctcle_cnt + 1
                    /\ dma'[c].slot = (ctcle_cnt + 1) % 2]_vars

\* the batches of cycles 0..n-1 of run r, in order
BatchesOf(r, n) == [i \in 1..n |-> Batch(r, i - 1)]

\* C27: after start_tomography(n) with n >= 1, on a device whose transfers
\* all complete, whose cycle counter advances and whose error bit stays
\* clear, and with no stop requested, the worker eventually has pushed
\* exactly the n batches of cycles 0..n-1 and has set done; it never pushes
\* more than n batches, and done is set only once all n are pushed.
C27_RunCompletes ==
    /\ \A n \in 1..MaxCycle :
         (par_queue = <<n>>)
           ~> (done_flag /\ wpc = "idle" /\ data_queue = BatchesOf(1, n))
    /\ [](Len(data_queue) <= st_arg)
    /\ []((done_flag /\ run_id = 1) => data_queue = BatchesOf(1, st_arg))

C27_Witness ==
    /\ done_flag
    /\ wpc = "idle"
    /\ run_id = 1
    /\ st_arg = MaxCycle
    /\ data_queue = BatchesOf(1, MaxCycle)
    /\ hw_cycles = MaxCycle

\* C2: once start_tomography has returned, the data queue holds no batch of
\* an earlier run, whatever the data and error queues held at the call.
C2_NoStaleBatch ==
    (cpc["ctl"] = "idle" /\ ret["ctl"] = Result("start_tomography", "ok", <<>>, <<>>))
      => \A i \in 1..Len(data_queue) : data_queue[i].run = nstarts

\* C10: when the error queue is not empty at the time poll_data is called
\* (and the error is still there when poll_data first looks), poll_data
\* returns (False, error) and no data, for every totaltime.
C10_ErrorReturned ==
    [][(/\ cpc["pol"] = "poll_loop"
        /\ cpc'["pol"] # "poll_loop"
        /\ pl_arg["pol"].err_at_call
        /\ new_data["pol"] = <<>>
        /\ error_queue # <<>>)
         => ret'["pol"] = Result("poll_data", "error", <<>>, <<Head(error_queue)>>)]_vars

\* the step in which a poll_data call of caller "pol" returns
PollReturns == cpc["pol"] \in {"poll_loop", "poll_get"} /\ cpc'["pol"] = "idle"

C12_ErrorAbortsRun ==
    \A i \in 1..Len(error_queue) :
      error_queue[i].cycle >= 0
        => \A j \in 1..Len(data_queue) :
             ~(/\ data_queue[j].run = error_queue[i].run
               /\ data_queue[j].cycle >= error_queue[i].cycle)

\* the step in which the handler of line 412 puts str(e) on the error queue
ExceptionHandled ==
    /\ Len(error_queue') = Len(error_queue) + 1
    /\ error_queue'[Len(error_queue')] = ExceptionText(run_id)

\* C13: an exception raised while the worker arms, waits for DMA or decodes
\* is caught: its text goes on the error queue and the worker goes on to
\* clear the start bit, then set done, then wait for the next command; the
\* worker thread never ends.
C13_ExceptionCaught ==
    [][/\ ExceptionHandled => wpc' = "finally"
       /\ (wpc = "finally" /\ wpc' # wpc)
            => (wpc' = "set_done" /\ regs'["start"] = <<0, 0>>)
       /\ (wpc = "set_done" /\ wpc' # wpc) => (wpc' = "idle" /\ done_flag')
       /\ wpc' # "dead"]_vars

C13_Witness ==
    /\ run_id = 2
    /\ wpc = "wait"
    /\ \E i \in 1..Len(error_queue) : error_queue[i] = ExceptionText(1)
    /\ \A i \in 1..Len(error_queue) : error_queue[i].cycle < 0
    /\ Started
    /\ ~done_flag

\* batch a was pushed by the worker before batch b
Before(a, b) == a.run < b.run \/ (a.run = b.run /\ a.cycle < b.cycle)

Increasing(q) == \A i, j \in 1..Len(q) : i < j => Before(q[i], q[j])

\* C14: the batches returned so far by the successive poll_data calls, then
\* those the call in progress has collected, then those still queued, are in
\* the order the worker pushed them, cycle i of a run before cycle i+1, with
\* no batch twice; and the records of each batch carry the trigger indices
\* 0..tag_cnt-1 in increasing order.
C14_InOrder ==
    LET all == polled \o new_data["pol"] \o data_queue
    IN  /\ Increasing(all)
        /\ \A n \in 1..Len(all) :
             /\ Len(all[n].data) = TagCnt
             /\ \A k \in 1..Len(all[n].data) : all[n].data[k].trigger = k - 1

C14_Witness ==
    /\ Len(polled) = 3
    /\ cpc["pol"] = "idle"
    /\ Len(ret["pol"].data) = 1
    /\ polled[3].cycle = 2

\* C15: a start_tomography call that has requested a stop and waits for done
\* eventually goes on, whatever the device and the DMA engines do after the
\* request.
C15_StopReturns == (cpc["ctl"] = "st_wait") ~> (cpc["ctl"] # "st_wait")

\* C20: no step of a caller's thread changes a device register.
C20_CallerWritesNoRegister == [][(cpc' # cpc) => regs' = regs]_vars

-----------------------------------------------------------------------------
(* Properties of set_waveform (specification SpecWf) *)

\* the step in which the caller's set_waveform call runs and returns
SetWaveformReturns == cpc["ctl"] = "set_waveform" /\ cpc'["ctl"] = "idle"

\* the caller's last call was set_waveform and it has returned or raised
SetWaveformDone(status) ==
    /\ cpc["ctl"] = "idle"
    /\ ret["ctl"].op = "set_waveform"
    /\ ret["ctl"].status = status

WaveformRegs == {"tri_limit", "tx_tag_fall", "tx_period", "tx_ratio_rise",
                 "tx_ratio_fall"}

\* C4: a set_waveform call whose trigger count
\* round(rise_time_ms * trigger_rate_hz * 0.001) exceeds TRIGGER_LIMIT raises,
\* and no device register is written by that call.
C4_OverLimitRejected ==
    [][(SetWaveformReturns /\ TriggerNum(wf_arg) > TRIGGER_LIMIT)
         => (ret'["ctl"].status = "raised" /\ regs' = regs)]_vars

C4_Witness ==
    /\ SetWaveformDone("raised")
    /\ TriggerNum(wf_arg) > TRIGGER_LIMIT
    /\ Validate(wf_arg) = "trigger_num"

BadBounds(a) ==
    \/ a.fall_time_ms < 50
    \/ ~(0 <= a.max_scal[1] /\ a.max_scal[1] <= a.max_scal[2])
    \/ a.trigger_rate_hz > 100000

\* C5: a set_waveform call with fall_time_ms < 50, max_scal outside [0, 1] or
\* trigger_rate_hz > 100000 raises in the caller, leaves every device register
\* unchanged and puts nothing on the worker's command queue.
C5_BadArgumentRejected ==
    [][(SetWaveformReturns /\ BadBounds(wf_arg))
         => (/\ ret'["ctl"].status = "raised"
             /\ regs' = regs
             /\ par_queue' = par_queue)]_vars

C5_Witness ==
    /\ SetWaveformDone("raised")
    /\ BadBounds(wf_arg)
    /\ TriggerNum(wf_arg) <= TRIGGER_LIMIT

\* C6: set_waveform(150, 50, 1.0, 100000) at a 307.2 MHz fabric clock is
\* accepted and leaves trigger_num = 15000 and
\* tx_ratio_rise = round(DAC_MAXV * 1.0 * 65536 / round(150 * 1000 * 307.2)).
C6_DefaultsAccepted ==
    (cpc["ctl"] = "idle" /\ ret["ctl"].op = "set_waveform" /\ wf_arg = DefaultArgs)
      => (/\ ret["ctl"].status = "ok"
          /\ trigger_num = 15000
          /\ regs["tx_ratio_rise"] = U32(BigOf(RoundDiv(DAC_MAXV * Q16, Clk(150)))))

\* C7: a set_waveform call that directly follows an accepted call with the
\* same arguments leaves tri_limit, tx_tag_fall, tx_period, tx_ratio_rise,
\* tx_ratio_fall and trigger_num as the first call left them.
C7_Idempotent ==
    [][(SetWaveformReturns /\ wf_last.arg = wf_arg)
         => (/\ \A n \in WaveformRegs : regs'[n] = regs[n]
             /\ trigger_num' = trigger_num
             /\ ret'["ctl"].status = "ok")]_vars

C7_Witness ==
    /\ SetWaveformDone("ok")
    /\ wf_last.twice
    /\ wf_last.arg = wf_arg
    /\ regs # ConfigureRegs

\* the tick count t decodes to ms milliseconds to within one clock tick
WithinOneTick(t, ms) == BigLeq(BigAbs(BigSub(t, Clk(ms))), BigOf(1))

\* C8: after an accepted set_waveform the stored tick counts (rise ticks =
\* tx_tag_fall + 1, rise + fall ticks = tx_period + 1) give back the configured
\* rise and fall times to within one clock tick.
C8_TicksRoundTrip ==
    SetWaveformDone("ok")
      => LET rise == BigAdd(regs["tx_tag_fall"], BigOf(1))
             both == BigAdd(regs["tx_period"], BigOf(1))
         IN  /\ WithinOneTick(rise, wf_arg.rise_time_ms)
             /\ WithinOneTick(BigSub(both, rise), wf_arg.fall_time_ms)

\* q * d for 0 <= q < 2^15 and a wide d >= 0
BigScale(q, d) == Norm(q * d[1], q * d[2])

\* q is n / d rounded to a nearest integer: |n - q * d| <= d / 2
IsRounded(q, n, d) ==
    LET diff == BigAbs(BigSub(BigOf(n), BigScale(q, d)))
    IN  BigLeq(BigAdd(diff, diff), d)

\* the value v >= 0 whose negative -v the 32-bit word w is the two's
\* complement of: w = (-v) mod 2^32
NegatedOf(w) == IF w = <<0, 0>> THEN <<0, 0>> ELSE BigSub(<<Half, 0>>, w)

\* C23: after a successful set_waveform the registers hold
\* tri_limit = round(rise_time_ms * trigger_rate_hz * 0.001),
\* tx_tag_fall = rise_clk - 1, tx_period = rise_clk + fall_clk - 1,
\* tx_ratio_rise = round(DAC_MAXV * max_scal * 2^16 / rise_clk) >= 0, and
\* tx_ratio_fall the two's-complement word of
\* -round(DAC_MAXV * max_scal * 2^16 / fall_clk) <= 0, with rise_clk and
\* fall_clk the times in clock ticks.
C23_WaveformRegisters ==
    SetWaveformDone("ok")
      => LET rise_clk == Clk(wf_arg.rise_time_ms)
             fall_clk == Clk(wf_arg.fall_time_ms)
             rise == regs["tx_ratio_rise"]
             fall == NegatedOf(regs["tx_ratio_fall"])
         IN  /\ regs["tri_limit"] = BigOf(TriggerNum(wf_arg))
             /\ regs["tx_tag_fall"] = BigSub(rise_clk, BigOf(1))
             /\ regs["tx_period"] = BigSub(BigAdd(rise_clk, fall_clk), BigOf(1))
             /\ rise[1] = 0 /\ rise[2] < Half \div 2
             /\ IsRounded(rise[2], Amp(wf_arg), rise_clk)
             /\ fall[1] = 0 /\ fall[2] < Half \div 2
             /\ IsRounded(fall[2], Amp(wf_arg), fall_clk)

-----------------------------------------------------------------------------
(* Properties of the port tracer (specification SpecTrace) *)

SetOf(q) == {q[i] : i \in 1..Len(q)}

\* C16: for the netlist at hand, what trace_back gave, and the set of blocks
\* trace_forward found, is what every iteration order of the buses' endpoint
\* sets gives.
C16_OrderIndependent ==
    /\ tr.op = "trace_back" => trace_back(net, TOMO, "S0_ADC") = {tr.out}
    /\ tr.op = "trace_forward"
         => \A o \in trace_forward(net, TOMO, "M0_ADC", tr.block_number) :
              o.kind = tr.out.kind /\ SetOf(o.found) = SetOf(tr.out.found)

\* C17: a trace_back walk in which a step reached a block of a type that is
\* neither a goal nor a pass-through type, or in which trace_bus gave no
\* endpoint or more than one, ends with an error: it returns neither a
\* result nor None.
C17_BackFails ==
    (tr.op = "trace_back" /\ (tr.out.unknown \/ tr.out.zero \/ tr.out.many))
      => tr.out.kind \notin {"return", "none"}

Debug(x) == net.mod2type[BlockOf(x)] = "system_ila"

\* C19: trace_bus(block, port) returns, once each, exactly the endpoints on
\* the bus of block/port other than block/port itself and the debug
\* endpoints, and the empty list when the port is on '__NOC__' or is the
\* only non-debug endpoint of its bus.
C19_BusEndpoints ==
    tr.op = "trace_bus"
      => LET p == FullPort(tr.block, tr.port)
             expected == IF net.pins[p] = "__NOC__" THEN {}
                         ELSE {x \in DOMAIN net.pins :
                                 /\ net.pins[x] = net.pins[p]
                                 /\ x # p
                                 /\ ~Debug(x)}
         IN  /\ ~tr.raised
             /\ SetOf(tr.result) = expected
             /\ Len(tr.result) = Cardinality(expected)

C19_Witness ==
    /\ tr.op = "trace_bus"
    /\ Len(tr.result) = 2
    /\ \E x \in DOMAIN net.pins :
         Debug(x) /\ net.pins[x] = net.pins[FullPort(tr.block, tr.port)]

-----------------------------------------------------------------------------
(* Properties of the SOC interface (specifications SpecSoc, SpecSocFair) *)

\* a step in which SOC.start_tomography or SOC.poll_data is called with
\* channel index ch
SocCall(ch) ==
    \/ \E c \in 1..MaxCycle : soc_start_tomography(ch, c)
    \/ \E tt \in TotalTimes : \E to \in SocTimeouts : soc_poll_data(ch, tt, to)

RaisedAtChannel(r) ==
    /\ r.op \in {"SOC.start_tomography", "SOC.poll_data"}
    /\ r.status \in {"ValueError", "IndexError"}

\* C21: SOC.start_tomography and SOC.poll_data called with a channel index
\* that is negative or larger than len(socip) - 1 raise an error and change
\* nothing of the channel: no command is queued, no flag or register is
\* changed, no queue is read and no call of the channel is entered.
C21_BadChannelNoEffect ==
    [][(\E ch \in Chs : (ch < 0 \/ ch > NumSocip - 1) /\ SocCall(ch))
         => /\ \E t \in Callers : RaisedAtChannel(ret'[t])
            /\ UNCHANGED <<devVars, flagVars, queueVars, workerVars, hwVars,
                           cpc, pollVars, st_arg, nstarts>>]_vars

C21_Witness ==
    /\ RaisedAtChannel(ret["pol"])
    /\ RaisedAtChannel(ret["ctl"])
    /\ data_queue # <<>>
    /\ wpc # "idle"

-----------------------------------------------------------------------------
(* Properties of register access by name (specification SpecReg) *)

\* C22: an access by a name of the register map reads or writes exactly the
\* word at the name's offset and no other word (and makes no attribute); an
\* access by a name that is not in the register map raises, and changes
\* neither a word nor an attribute.
C22_RegisterAccess ==
    [][(ip'.last # ip.last)
         => LET l == ip'.last
            IN  IF l.name \in DOMAIN REGISTER_MAP
                THEN /\ ~l.raised
                     /\ ip'.dict = ip.dict
                     /\ IF l.op = "set"
                        THEN ip'.array = [ip.array EXCEPT ![REGISTER_MAP[l.name]] =
                                                            U32(BigOf(l.value))]
                        ELSE /\ ip'.array = ip.array
                             /\ l.value = ip.array[REGISTER_MAP[l.name]]
                ELSE /\ l.raised
                     /\ ip'.array = ip.array
                     /\ ip'.dict = ip.dict]_vars

-----------------------------------------------------------------------------
(* Properties of the decode (specification SpecDecode) *)

\* C28: decoding a buffer that reports N triggers yields N records; the
\* start offset of record 0 is time[0] mod INTERPOLATION; from record i-1 to
\* record i the offset advances by the difference of the quotients
\* time // INTERPOLATION clamped to graphy_clk = 1024 // INTERPOLATION, so by
\* at most graphy_clk clocks; and, N being at most trigger_num, every
\* snippet [start, start + 1000) lies inside the trigger_num * 1024 samples
\* transferred and has length 1000.
C28_DecodeSnippets ==
    dp.op = "data_process"
      => LET I == dp.INTERPOLATION
             t == dp.time_buf
             d == dp.total_data
             N == Len(t)
         IN  /\ Len(d) = N
             /\ N > 0 => d[1].start_index = t[1] % I
             /\ \A i \in 2..N :
                  LET delta == (t[i] \div I) - (t[i - 1] \div I)
                      step == d[i].start_clk - d[i - 1].start_clk
                  IN  /\ step <= graphy_clk(I)
                      /\ step = IF delta > graphy_clk(I) THEN graphy_clk(I) ELSE delta
             /\ \A i \in 1..N :
                  /\ 0 <= d[i].start_index
                  /\ d[i].start_index + 1000 <= dp.trigger_num * 1024
                  /\ d[i].len = 1000

-----------------------------------------------------------------------------
(* Properties of trace_forward's coverage (specification SpecTrace) *)

\* the output ports of a block of a fan-out type, as the claim counts them:
\* M00_AXIS .. M(k-1)_AXIS of a broadcaster with NUM_MI = k, M_AXIS of a
\* register slice
FanOutPorts(b) ==
    CASE net.mod2type[b] = "axis_broadcaster" ->
           {FullPort(b, "M00_AXIS")}
             \cup (IF net.num_mi >= 2 THEN {FullPort(b, "M01_AXIS")} ELSE {})
      [] net.mod2type[b] = "axis_register_slice" -> {FullPort(b, "M_AXIS")}
      [] OTHER -> {}

\* the endpoints a port is wired to: the other non-debug ports on its bus
OnBus(p) ==
    IF net.pins[p] = "__NOC__" THEN {}
    ELSE {q \in DOMAIN net.pins :
            q # p /\ net.pins[q] = net.pins[p] /\ ~Debug(q)}

\* the output ports reached from the ports S in at most k steps through
\* blocks of the fan-out types
RECURSIVE ReachedOutputs(_, _)
ReachedOutputs(S, k) ==
    IF k = 0 THEN S
    ELSE ReachedOutputs(
           S \cup UNION {FanOutPorts(BlockOf(q)) :
                           q \in UNION {OnBus(p) : p \in S}},
           k - 1)

\* the goal-type blocks reachable from tomo/M0_ADC, each with the input port
\* at which it is reached
ReachableGoals ==
    {<<BlockOf(q), PortOf(q), net.mod2type[BlockOf(q)]>> :
       q \in {e \in UNION {OnBus(p) :
                             p \in ReachedOutputs({FullPort(TOMO, "M0_ADC")},
                                                  Cardinality(DOMAIN net.mod2type))} :
                net.mod2type[BlockOf(e)] \in GoalTypes}}

\* C29: at a broadcaster with NUM_MI = k trace_forward enqueues the k ports
\* M00_AXIS .. M(k-1)_AXIS, and the list it returns contains every goal-type
\* block reachable from the start port through blocks of the fan-out types,
\* with the input port at which the block is reached.
C29_ForwardFindsAll ==
    /\ net.mod2type[BLK_X] = "axis_broadcaster"
         => SetOf(ForwardPorts(net, BLK_X, "axis_broadcaster"))
              = {<<BLK_X, PortOf(q)>> : q \in FanOutPorts(BLK_X)}
    /\ (tr.op = "trace_forward" /\ tr.out.kind = "return")
         => ReachableGoals \subseteq SetOf(tr.out.found)

\* the same on the walks that met one endpoint on every bus they followed
C29_OnSimpleNets ==
    (tr.op = "trace_forward" /\ tr.out.kind = "return"
       /\ \A p \in ReachedOutputs({FullPort(TOMO, "M0_ADC")}, 5) :
            Cardinality(OnBus(p)) <= 1)
      => ReachableGoals = SetOf(tr.out.found)

-----------------------------------------------------------------------------
(* Properties of poll_data's blocking (specification SpecSocFair) *)

\* a poll_data call of the polling caller is in progress
Polling == cpc["pol"] \in {"poll_loop", "poll_get"}

\* C30: poll_data bounds its own blocking: a call, entered through
\* SOC.poll_data with any timeout argument the interface accepts (its default
\* None included), with totaltime >= 0 or negative, eventually returns to
\* its caller, also when the worker pushes no batch and no error.
C30_PollReturns == Polling ~> cpc["pol"] = "idle"

\* the same of the calls that pass a number as timeout
C30_TimedPollReturns ==
    (Polling /\ pl_arg["pol"].timeout = "timed") ~> cpc["pol"] = "idle"

-----------------------------------------------------------------------------
(* Properties of the transfer sizes (specification SpecWfRun) *)

\* C31: whatever set_waveform calls, accepted or rejected, and
\* start_tomography calls came before, the trigger count that sizes the
\* transfers is at most TRIGGER_LIMIT when the worker computes the lengths
\* and arms the first transfer of a run (lines 380-383), and a set_waveform
\* call that raises leaves trigger_num as it was.
C31_TransfersFit ==
    [][/\ (wpc = "arm" /\ wpc' # "arm") => trigger_num <= TRIGGER_LIMIT
       /\ (cpc["ctl"] = "set_waveform" /\ cpc'["ctl"] = "idle"
             /\ ret'["ctl"].status = "raised")
            => trigger_num' = trigger_num]_vars

-----------------------------------------------------------------------------
(* Properties of set_waveform's writes (specification SpecWf) *)

\* a set_waveform call returns or raises
WfReturns == cpc["ctl"] = "set_waveform" /\ cpc'["ctl"] = "idle"

\* C32: set_waveform is all-or-nothing on the registers, for every argument
\* tuple: a call that raises leaves tri_limit, tx_tag_fall, tx_period,
\* tx_ratio_rise and tx_ratio_fall as they were, and a call that returns has
\* written all five (tri_limit holds the trigger count and tx_tag_fall the
\* rise ticks less one, as 32-bit words).
C32_AllOrNothing ==
    [][WfReturns
         => IF ret'["ctl"].status = "raised"
            THEN \A n \in WaveformRegs : regs'[n] = regs[n]
            ELSE /\ regs'["tri_limit"] = U32(BigOf(TriggerNum(wf_arg)))
                 /\ regs'["tx_tag_fall"]
                      = U32(BigSub(Clk(wf_arg.rise_time_ms), BigOf(1)))]_vars

-----------------------------------------------------------------------------
(* Properties of the walks' termination (specification SpecTraceLoop) *)

\* C33: trace_back and trace_forward terminate on every finite netlist, also
\* on one whose blocks form a cycle and on one with an unconnected port:
\* each call returns a result (a triple, a list, None) or raises; none goes on
\* for ever.
C33_WalksTerminate ==
    tr.op \in {"trace_back", "trace_forward"} => tr.out.kind # "loop"

-----------------------------------------------------------------------------
(* Properties of the batches across polls and runs (specification           *)
(* SpecRestart)                                                             *)

\* the batch a step of poll_data takes from the data queue, as a list
Taken == IF data_queue' # data_queue /\ cpc["pol"] = "poll_get"
         THEN <<Head(data_queue)>> ELSE <<>>

\* C34: no batch is lost by poll_data: when a poll_data call returns, its
\* return value holds every batch the call has removed from the data queue,
\* those collected in earlier passes of its loop and the one taken in the
\* last, whether or not the worker has pushed an error and whether or not a
\* start_tomography call has set the stop flag meanwhile.
C34_NoBatchLost ==
    [][PollReturns => ret'["pol"].data = new_data["pol"] \o Taken]_vars

\* start_tomography has returned normally and no call has been made since
StartReturned ==
    cpc["ctl"] = "idle" /\ ret["ctl"] = Result("start_tomography", "ok", <<>>, <<>>)

\* C35: errors do not cross runs: once start_tomography has returned, the
\* error queue holds no error pushed by an earlier run (run nstarts is the
\* one just submitted), so that the first poll_data of the new run cannot
\* return the fault of a previous run; and, an error pending or not when
\* start_tomography was called, the data queue holds no batch of an earlier
\* run either.
C35_ErrorsStayInRun ==
    StartReturned
      => /\ \A i \in 1..Len(error_queue) : error_queue[i].run = nstarts
         /\ (error_queue # <<>>
               => \A j \in 1..Len(data_queue) : data_queue[j].run = nstarts)

-----------------------------------------------------------------------------
(* Properties of the transfers left by a run (specification SpecRun) *)

\* C36: whenever the worker has set done and is back waiting for a command,
\* after a run that completed, was stopped, met a hardware fault or raised
\* an exception, no receive transfer armed by that run is still in flight, so
\* that the first transfer of the next run into slot 0 meets no transfer
\* left over.
C36_NoTransferLeft ==
    (wpc = "idle" /\ run_id > 0) => \A c \in Channels : dma[c].state # "busy"

\* the same of the runs that end without an exception: when the worker
\* leaves its loop for the finally clause other than through the handler of
\* line 412, no transfer is in flight
C36_WithoutException ==
    [][(wpc # "finally" /\ wpc' = "finally" /\ ~ExceptionHandled)
         => \A c \in Channels : dma[c].state # "busy"]_vars

=============================================================================
